---- MODULE Spec2Model ----
(***************************************************************************)
(* Relay fabric of the homecast server: the per-process Connection Manager *)
(* (websocket/handler.py), the cross-instance router                       *)
(* (websocket/pubsub_router.py), the web client hub                        *)
(* (websocket/web_clients.py) and the two database tables they share       *)
(* (session_repository.py, topic_slot_repository.py), and the scope        *)
(* routers in front of the adapters (home_app.py, homes_app.py).           *)
(*                                                                         *)
(* Every `with get_session()` block is one database transaction and is     *)
(* modelled as one atomic step.  Time is a global clock in seconds that    *)
(* advances in steps of TickSeconds.                                       *)
(***************************************************************************)
EXTENDS Integers, Sequences, FiniteSets, TLC

\* ---------------------------------------------------------------- universe
Procs == {"P1", "P2"}
Devices == {"A1", "A2"}
Users == {"u1", "u2"}
Tokens == Users \cup {"bad"}
SlotNames == {"s1", "s2", "s3"}
None == "None"
\* a NULL datetime column
NoTime == 0 - 1

\* ------------------------------------------------------------------ bounds
MaxTicks == 6
MaxShortTicks == 3
MaxSockets == 3
MaxWebSessions == 2
MaxCalls == 2
MaxReplies == 2
MaxRedeliveries == 1
MaxChurnCalls == 1
MaxStrays == 1
MaxEvents == 2
MaxTail == 3
MaxChunks == 2
MaxPings == 1

\* ------------------------------------------------------- program constants
STALE_SESSION_TIMEOUT_SECONDS == 120
SLOT_TIMEOUT == 300
TickSeconds == 60

VARIABLES
    now,              \* wall clock, seconds
    sessions,         \* table sessions: set of rows
    slots,            \* table topic_slots: set of rows
    phase,            \* per process: "new" | "running" | "stopped"
    enabled,          \* PubSubRouter._enabled, per process
    slot_name,        \* PubSubRouter._slot_name, per process
    hb_task,          \* PubSubRouter._heartbeat_task is running, per process
    connections,      \* ConnectionManager.connections, per process
    socks,            \* agent sockets and their read loops
    next_sock,        \* next agent socket to be accepted
    local_clients,    \* WebClientManager.local_clients, per process
    webs,             \* listener sockets and their read loops
    next_sid,         \* next Session.id of a listener row
    pending_requests, \* ConnectionManager.pending_requests, per process
    router_pending,   \* PubSubRouter._pending_requests, per process
    bus,              \* messages published and not yet delivered
    calls,            \* route_request calls, in the order they were made
    tasks,            \* running ConnectionManager.send_request coroutines
    users,            \* table users: settings_json of each user
    homes,            \* table homes: set of rows
    http,             \* the request at the scope router and its response
    scheduled,        \* _handle_message coroutines handed to the loop, per process
    acked,            \* bus messages acked by a delivery callback
    nacked,           \* bus messages nacked by a delivery callback
    handled           \* bus messages whose _handle_message has run

slotVars == <<slots, phase, enabled, slot_name, hb_task>>
agentVars == <<connections, socks, next_sock>>
webVars == <<local_clients, webs, next_sid>>
reqVars == <<pending_requests, router_pending, bus, calls, tasks>>
scopeVars == <<users, homes, http>>
cbVars == <<scheduled, acked, nacked, handled>>
vars == <<now, sessions, slotVars, agentVars, webVars, reqVars, scopeVars, cbVars>>

\* --------------------------------------------------------------- utilities
Put(f, k, v) == [x \in DOMAIN f \cup {k} |-> IF x = k THEN v ELSE f[x]]
Drop(f, k) == [x \in DOMAIN f \ {k} |-> f[x]]
EmptyMap == [x \in {} |-> None]

\* _get_instance_id(): one unique id per container; the process name here
\* connect(): pubsub_router.instance_id if pubsub_router.enabled else "local"
InstanceId(p) == IF enabled[p] THEN p ELSE "local"

\* homecast.auth.verify_token: the user a valid token was issued to
verify_token(tok) == IF tok \in Users THEN tok ELSE None

\* --------------------------------------------------- topic_slot_repository
\* the select of step 1 of claim_slot finding nothing
OwnRows_None(db, inst) == {}

\* rows named by select(TopicSlot).where(TopicSlot.instance_id == instance_id)
OwnRows(db, inst) == {r \in db : r.instance_id = inst}

\* step 2 of claim_slot without the stale window
StaleRows_NoWindow(db, t) ==
    {r \in db : \/ r.instance_id = None
                \/ /\ r.last_heartbeat # NoTime
                   /\ r.last_heartbeat < t}

\* rows matched by step 2 of claim_slot:
\* instance_id IS NULL OR last_heartbeat < now - SLOT_TIMEOUT
StaleRows(db, t) ==
    {r \in db : \/ r.instance_id = None
                \/ /\ r.last_heartbeat # NoTime
                   /\ r.last_heartbeat < t - SLOT_TIMEOUT}

\* _generate_slot_name() retried while session.get(TopicSlot, slot_name)
FreshSlotNames(db) == SlotNames \ {r.slot_name : r \in db}

\* claim_slot without step 2: a new row whenever the instance owns none
claim_slot_NoReclaim(db, inst, t) ==
    IF OwnRows(db, inst) # {}
    THEN {[db |-> (db \ {r}) \cup {[r EXCEPT !.claimed_at = t, !.last_heartbeat = t]},
           slot |-> r.slot_name] : r \in OwnRows(db, inst)}
    ELSE {[db |-> db \cup {[slot_name |-> n, instance_id |-> inst,
                            claimed_at |-> t, last_heartbeat |-> t]},
           slot |-> n] : n \in FreshSlotNames(db)}

\* claim_slot: the set of possible results [db, slot] (first() and the random
\* name are arbitrary choices)
claim_slot(db, inst, t) ==
    IF OwnRows(db, inst) # {}
    THEN {[db |-> (db \ {r}) \cup {[r EXCEPT !.claimed_at = t, !.last_heartbeat = t]},
           slot |-> r.slot_name] : r \in OwnRows(db, inst)}
    ELSE IF StaleRows(db, t) # {}
    THEN {[db |-> (db \ {r}) \cup {[r EXCEPT !.instance_id = inst,
                                             !.claimed_at = t,
                                             !.last_heartbeat = t]},
           slot |-> r.slot_name] : r \in StaleRows(db, t)}
    ELSE {[db |-> db \cup {[slot_name |-> n, instance_id |-> inst,
                            claimed_at |-> t, last_heartbeat |-> t]},
           slot |-> n] : n \in FreshSlotNames(db)}

\* release_slot: null out instance_id and last_heartbeat of the first own row
release_slot(db, inst) ==
    IF OwnRows(db, inst) = {} THEN {db}
    ELSE {(db \ {r}) \cup {[r EXCEPT !.instance_id = None, !.last_heartbeat = NoTime]}
          : r \in OwnRows(db, inst)}

\* heartbeat: last_heartbeat = now on the first own row
heartbeat(db, inst, t) ==
    IF OwnRows(db, inst) = {} THEN {db}
    ELSE {(db \ {r}) \cup {[r EXCEPT !.last_heartbeat = t]} : r \in OwnRows(db, inst)}

\* get_slot_for_instance: the slot names of the rows naming the instance
get_slot_for_instance(db, inst) == {r.slot_name : r \in OwnRows(db, inst)}

\* ------------------------------------------------------ session_repository
\* BaseModel.id (uuid4) of the row created for a device: any value that no
\* listener row has
DeviceRowId(d) == IF d = "A1" THEN 0 - 1 ELSE 0 - 2

\* get_device_session(db, device_id) with include_stale=True
get_device_session(db, d) == {r \in db : r.device_id = d}

\* create_session: update the existing row of the device, else insert
create_session(db, user, inst, type, d, id, t) ==
    IF d # None /\ get_device_session(db, d) # {}
    THEN LET r == CHOOSE x \in get_device_session(db, d) : TRUE
         IN (db \ {r}) \cup {[r EXCEPT !.instance_id = inst, !.last_heartbeat = t]}
    ELSE db \cup {[id |-> id, user_id |-> user, instance_id |-> inst,
                   session_type |-> type, device_id |-> d, last_heartbeat |-> t]}

delete_session(db, id) == {r \in db : r.id # id}

delete_by_device_id(db, d) == {r \in db : r.device_id # d}

update_heartbeat(db, id, t) ==
    {IF r.id = id THEN [r EXCEPT !.last_heartbeat = t] ELSE r : r \in db}

update_heartbeat_by_device(db, d, t) ==
    {IF r.device_id = d THEN [r EXCEPT !.last_heartbeat = t] ELSE r : r \in db}

\* has_web_listeners: a web row of the user with last_heartbeat > cutoff
has_web_listeners(db, u, t) ==
    \E r \in db : /\ r.user_id = u
                  /\ r.session_type = "web"
                  /\ r.last_heartbeat > t - STALE_SESSION_TIMEOUT_SECONDS

\* cleanup_stale_sessions with the cutoff included
cleanup_stale_sessions_Eager(db, t) ==
    {r \in db : ~(r.last_heartbeat <= t - STALE_SESSION_TIMEOUT_SECONDS)}

\* cleanup_stale_sessions: delete rows with last_heartbeat < cutoff
cleanup_stale_sessions(db, t) ==
    {r \in db : ~(r.last_heartbeat < t - STALE_SESSION_TIMEOUT_SECONDS)}

cleanup_instance_sessions(db, inst) == {r \in db : r.instance_id # inst}

\* ------------------------------------------------------------ scope router
\* a JSON value: its type, its literal unless it is an object, its members
JAtom(t, v) == [t |-> t, v |-> v, m |-> EmptyMap]

\* User.settings_json is NULL (else it is a text, which is empty, is no JSON,
\* or is the serialisation of the JSON value doc)
NullColumn == [t |-> "NULL", doc |-> JAtom("null", "null")]

\* no settings, no home, no request at the scope router
ScopeIdle ==
    /\ users = [u \in Users |-> NullColumn]
    /\ homes = {}
    /\ http = [pc |-> "idle"]

\* no delivery callback has run
CallbackIdle ==
    /\ scheduled = [p \in Procs |-> {}]
    /\ acked = {}
    /\ nacked = {}
    /\ handled = {}

\* -------------------------------------------------------------------- Init
Init ==
    /\ now = 0
    /\ ScopeIdle
    /\ CallbackIdle
    /\ sessions = {}
    /\ slots = {}
    /\ phase = [p \in Procs |-> "new"]
    /\ enabled = [p \in Procs |-> TRUE]
    /\ slot_name = [p \in Procs |-> None]
    /\ hb_task = [p \in Procs |-> FALSE]
    /\ connections = [p \in Procs |-> EmptyMap]
    /\ socks = EmptyMap
    /\ next_sock = 1
    /\ local_clients = [p \in Procs |-> EmptyMap]
    /\ webs = EmptyMap
    /\ next_sid = 1
    /\ pending_requests = [p \in Procs |-> EmptyMap]
    /\ router_pending = [p \in Procs |-> EmptyMap]
    /\ bus = {}
    /\ calls = <<>>
    /\ tasks = EmptyMap

\* the state after PubSubRouter.connect succeeded on every process at time 0
InitSlot(p) == IF p = "P1" THEN "s1" ELSE "s2"

InitHost(d) == IF d = "A1" THEN "P1" ELSE "P2"

InitSock(d) == IF d = "A1" THEN 1 ELSE 2

InitRunning ==
    /\ now = 0
    /\ ScopeIdle
    /\ CallbackIdle
    /\ sessions = {}
    /\ slots = {[slot_name |-> InitSlot(p), instance_id |-> p,
                 claimed_at |-> 0, last_heartbeat |-> 0] : p \in Procs}
    /\ phase = [p \in Procs |-> "running"]
    /\ enabled = [p \in Procs |-> TRUE]
    /\ slot_name = [p \in Procs |-> InitSlot(p)]
    /\ hb_task = [p \in Procs |-> TRUE]
    /\ connections = [p \in Procs |-> EmptyMap]
    /\ socks = EmptyMap
    /\ next_sock = 1
    /\ local_clients = [p \in Procs |-> EmptyMap]
    /\ webs = EmptyMap
    /\ next_sid = 1
    /\ pending_requests = [p \in Procs |-> EmptyMap]
    /\ router_pending = [p \in Procs |-> EmptyMap]
    /\ bus = {}
    /\ calls = <<>>
    /\ tasks = EmptyMap

\* ------------------------------------------------------------------- clock
TickTo(n) ==
    /\ now < n * TickSeconds
    /\ now' = now + TickSeconds
    /\ UNCHANGED <<scopeVars, cbVars, sessions, slotVars, agentVars, webVars, reqVars>>

Tick == TickTo(MaxTicks)

TickShort == TickTo(MaxShortTicks)

\* ------------------------------------------------- PubSubRouter life cycle
\* PubSubRouter.connect, everything succeeds
Router_connect_ok(p) ==
    /\ phase[p] = "new"
    /\ enabled[p]
    /\ \E c \in claim_slot(slots, p, now) :
          /\ slots' = c.db
          /\ slot_name' = [slot_name EXCEPT ![p] = c.slot]
    /\ hb_task' = [hb_task EXCEPT ![p] = TRUE]
    /\ phase' = [phase EXCEPT ![p] = "running"]
    /\ UNCHANGED <<scopeVars, cbVars, now, sessions, enabled, agentVars, webVars, reqVars>>

\* PubSubRouter.connect, an exception before or in claim_slot
Router_connect_noslot(p) ==
    /\ phase[p] = "new"
    /\ enabled[p]
    /\ enabled' = [enabled EXCEPT ![p] = FALSE]
    /\ phase' = [phase EXCEPT ![p] = "running"]
    /\ UNCHANGED <<scopeVars, cbVars, now, sessions, slots, slot_name, hb_task, agentVars, webVars, reqVars>>

\* PubSubRouter.connect, an exception after claim_slot (topic, subscription)
\* that leaves _enabled set
Router_connect_nobus_enabled(p) ==
    /\ phase[p] = "new"
    /\ enabled[p]
    /\ \E c \in claim_slot(slots, p, now) :
          /\ slots' = c.db
          /\ slot_name' = [slot_name EXCEPT ![p] = c.slot]
    /\ phase' = [phase EXCEPT ![p] = "running"]
    /\ UNCHANGED <<scopeVars, cbVars, now, sessions, hb_task, enabled, agentVars, webVars, reqVars>>

\* PubSubRouter.connect, an exception after claim_slot (topic, subscription)
Router_connect_nobus(p) ==
    /\ phase[p] = "new"
    /\ enabled[p]
    /\ \E c \in claim_slot(slots, p, now) :
          /\ slots' = c.db
          /\ slot_name' = [slot_name EXCEPT ![p] = c.slot]
    /\ enabled' = [enabled EXCEPT ![p] = FALSE]
    /\ phase' = [phase EXCEPT ![p] = "running"]
    /\ UNCHANGED <<scopeVars, cbVars, now, sessions, hb_task, agentVars, webVars, reqVars>>

\* one iteration of PubSubRouter._heartbeat_loop
Router_heartbeat(p) ==
    /\ phase[p] = "running"
    /\ hb_task[p]
    /\ slots' \in heartbeat(slots, p, now)
    /\ UNCHANGED <<scopeVars, cbVars, now, sessions, phase, enabled, slot_name, hb_task, agentVars, webVars, reqVars>>

\* what is left of the memory of process p once it has stopped: its maps are
\* gone, its sockets are closed and their read loops and coroutines ended
StopSocks(p) ==
    [s \in DOMAIN socks |->
        IF socks[s].proc = p THEN [socks[s] EXCEPT !.loop = FALSE, !.open = FALSE]
        ELSE socks[s]]

StopWebs(p) == [w \in {x \in DOMAIN webs : webs[x].proc # p} |-> webs[w]]

StopTasks(p) == [t \in {x \in DOMAIN tasks : tasks[x].proc # p} |-> tasks[t]]

StopCalls(p) ==
    [c \in DOMAIN calls |->
        IF calls[c].proc = p /\ calls[c].pc # "done"
        THEN [calls[c] EXCEPT !.pc = "aborted"] ELSE calls[c]]

StopMemory(p) ==
    /\ connections' = [connections EXCEPT ![p] = EmptyMap]
    /\ socks' = StopSocks(p)
    /\ local_clients' = [local_clients EXCEPT ![p] = EmptyMap]
    /\ webs' = StopWebs(p)
    /\ pending_requests' = [pending_requests EXCEPT ![p] = EmptyMap]
    /\ router_pending' = [router_pending EXCEPT ![p] = EmptyMap]
    /\ tasks' = StopTasks(p)
    /\ calls' = StopCalls(p)
    /\ scheduled' = [scheduled EXCEPT ![p] = {}]
    /\ UNCHANGED <<next_sock, next_sid, bus, acked, nacked, handled>>

\* lifespan shutdown: cleanup_instance_sessions, then PubSubRouter.disconnect
Shutdown(p) ==
    /\ phase[p] = "running"
    /\ sessions' = cleanup_instance_sessions(sessions, InstanceId(p))
    /\ slots' \in (IF slot_name[p] # None THEN release_slot(slots, p) ELSE {slots})
    /\ hb_task' = [hb_task EXCEPT ![p] = FALSE]
    /\ phase' = [phase EXCEPT ![p] = "stopped"]
    /\ StopMemory(p)
    /\ UNCHANGED <<scopeVars, now, enabled, slot_name>>

\* the process dies without running its shutdown code
Crash(p) ==
    /\ phase[p] = "running"
    /\ hb_task' = [hb_task EXCEPT ![p] = FALSE]
    /\ phase' = [phase EXCEPT ![p] = "stopped"]
    /\ StopMemory(p)
    /\ UNCHANGED <<scopeVars, now, sessions, slots, enabled, slot_name>>

\* a stopped container is started again: module state is constructed anew
Restart(p) ==
    /\ phase[p] = "stopped"
    /\ phase' = [phase EXCEPT ![p] = "new"]
    /\ enabled' = [enabled EXCEPT ![p] = TRUE]
    /\ slot_name' = [slot_name EXCEPT ![p] = None]
    /\ UNCHANGED <<scopeVars, cbVars, now, sessions, slots, hb_task, agentVars, webVars, reqVars>>

\* ------------------------------------------------------ ConnectionManager
\* ConnectionManager.connect with a token that verify_token rejects:
\* accept, close with 4001, no read loop
CM_connect_bad(p, tok, d) ==
    /\ phase[p] = "running"
    /\ next_sock <= MaxSockets
    /\ verify_token(tok) = None
    /\ socks' = Put(socks, next_sock,
                    [proc |-> p, device_id |-> d, user_id |-> None,
                     open |-> FALSE, code |-> 4001, peer |-> TRUE, loop |-> FALSE,
                     lc |-> <<>>, reqs |-> EmptyMap, strays |-> <<>>, events |-> 0,
             pings |-> <<>>])
    /\ next_sock' = next_sock + 1
    /\ UNCHANGED <<scopeVars, cbVars, now, sessions, slotVars, connections, webVars, reqVars>>

\* sockets after `old_conn.websocket.close(code=4002)` on the entry that
\* this process holds for the device, if any
CloseReplaced(p, d) ==
    IF d \in DOMAIN connections[p]
    THEN LET old == connections[p][d].websocket
         IN IF socks[old].open
            THEN [socks EXCEPT ![old].open = FALSE, ![old].code = 4002]
            ELSE socks
    ELSE socks

\* ConnectionManager.connect with a valid token, followed by the start of
\* the read loop of websocket_endpoint
CM_connect(p, tok, d) ==
    /\ phase[p] = "running"
    /\ next_sock <= MaxSockets
    /\ verify_token(tok) # None
    /\ socks' = Put(CloseReplaced(p, d), next_sock,
                    [proc |-> p, device_id |-> d, user_id |-> verify_token(tok),
                     open |-> TRUE, code |-> 0, peer |-> TRUE, loop |-> TRUE,
                     lc |-> <<>>, reqs |-> EmptyMap, strays |-> <<>>, events |-> 0,
             pings |-> <<>>])
    /\ connections' = [connections EXCEPT ![p] =
                          Put(@, d, [websocket |-> next_sock,
                                     user_id |-> verify_token(tok)])]
    /\ sessions' = create_session(sessions, verify_token(tok), InstanceId(p),
                                  "device", d, DeviceRowId(d), now)
    /\ next_sock' = next_sock + 1
    /\ UNCHANGED <<scopeVars, cbVars, now, slotVars, webVars, reqVars>>

\* the agent, or the network, goes away
AgentPeerClose(s) ==
    /\ s \in DOMAIN socks
    /\ socks[s].loop /\ socks[s].peer
    /\ socks' = [socks EXCEPT ![s].peer = FALSE]
    /\ UNCHANGED <<scopeVars, cbVars, now, sessions, slotVars, connections, next_sock, webVars, reqVars>>

\* ConnectionManager.disconnect: the state it leaves
disconnect_connections(p, d) ==
    [connections EXCEPT ![p] = IF d \in DOMAIN @ THEN Drop(@, d) ELSE @]

\* websocket_endpoint: receive_text raises on a socket that the peer or the
\* server has closed; both handlers call ConnectionManager.disconnect
AgentLoopEnd(s) ==
    /\ s \in DOMAIN socks
    /\ socks[s].loop
    /\ ~socks[s].peer \/ ~socks[s].open
    /\ phase[socks[s].proc] = "running"
    /\ socks' = [socks EXCEPT ![s].loop = FALSE, ![s].open = FALSE]
    /\ connections' = disconnect_connections(socks[s].proc, socks[s].device_id)
    /\ sessions' = delete_by_device_id(sessions, socks[s].device_id)
    /\ UNCHANGED <<scopeVars, cbVars, now, slotVars, next_sock, webVars, reqVars>>

\* a frame can be read from the socket by its read loop
Readable(s) ==
    /\ s \in DOMAIN socks
    /\ socks[s].loop /\ socks[s].peer /\ socks[s].open
    /\ phase[socks[s].proc] = "running"

\* handle_message, type "pong"
AgentPong(s) ==
    /\ Readable(s)
    /\ sessions' = update_heartbeat_by_device(sessions, socks[s].device_id, now)
    /\ UNCHANGED <<scopeVars, cbVars, now, slotVars, agentVars, webVars, reqVars>>

\* one iteration of web_clients.cleanup_stale_sessions
Cleanup(p) ==
    /\ phase[p] = "running"
    /\ sessions' = cleanup_stale_sessions(sessions, now)
    /\ UNCHANGED <<scopeVars, cbVars, now, slotVars, agentVars, webVars, reqVars>>

\* ---------------------------------------------------------- agent sessions
NextConn ==
    \/ TickShort
    \/ \E p \in Procs, tok \in Tokens, d \in Devices : CM_connect_bad(p, tok, d)
    \/ \E p \in Procs, tok \in Tokens, d \in Devices : CM_connect(p, tok, d)
    \/ \E s \in 1..MaxSockets : AgentPeerClose(s)
    \/ \E s \in 1..MaxSockets : AgentLoopEnd(s)
    \/ \E s \in 1..MaxSockets : AgentPong(s)
    \/ \E p \in Procs : Cleanup(p)

SpecConn == InitRunning /\ [][NextConn]_vars

\* the processes whose agent map holds the device
Holders(d) == {p \in Procs : d \in DOMAIN connections[p]}

\* the sockets of the device that passed token verification and that the
\* server has not closed
LiveSocks(d) ==
    {s \in DOMAIN socks : socks[s].device_id = d /\ socks[s].user_id # None
                          /\ socks[s].open}

\* C1: for any agentID at most one agent session exists globally at any
\* instant: at most one process holds the agent in its agent map, the
\* registry has at most one row for it, and once a second connect with the
\* same agentID has been accepted the prior socket has been closed (4002),
\* so that at most one accepted socket of the agent is open.
C1_OneAgentSession ==
    \A d \in Devices :
        /\ Cardinality(Holders(d)) <= 1
        /\ Cardinality(get_device_session(sessions, d)) <= 1
        /\ Cardinality(LiveSocks(d)) <= 1

\* -------------------------------------------------------- WebClientManager
\* the agent sockets that a send_json of this process reaches: the entries of
\* its agent map for the user whose socket is open with the agent behind it
NotifyTargets(p, u, sk) ==
    {connections[p][d].websocket :
        d \in {x \in DOMAIN connections[p] : connections[p][x].user_id = u}}
    \cap {s \in DOMAIN sk : sk[s].open /\ sk[s].peer}

\* _notify_mac_apps: a listeners_changed frame on the socket of each device
\* that get_user_devices of this process returns; a failed send is logged
_notify_mac_apps(p, u, listening, sk) ==
    [s \in DOMAIN sk |->
        IF s \in NotifyTargets(p, u, sk)
        THEN [sk[s] EXCEPT !.lc = Append(@, listening)]
        ELSE sk[s]]

\* WebClientManager.connect with a token that verify_token accepts, followed
\* by the start of the read loop of web_client_endpoint
Web_connect(p, tok) ==
    /\ phase[p] = "running"
    /\ next_sid <= MaxWebSessions
    /\ verify_token(tok) # None
    /\ LET u == verify_token(tok)
           had_listeners == has_web_listeners(sessions, u, now)
       IN /\ sessions' = create_session(sessions, u, InstanceId(p), "web",
                                        None, next_sid, now)
          /\ local_clients' = [local_clients EXCEPT ![p] =
                                  Put(@, next_sid, [user_id |-> u])]
          /\ webs' = Put(webs, next_sid,
                         [proc |-> p, user_id |-> u, peer |-> TRUE, ev |-> {}])
          /\ socks' = IF had_listeners THEN socks
                      ELSE _notify_mac_apps(p, u, TRUE, socks)
    /\ next_sid' = next_sid + 1
    /\ UNCHANGED <<scopeVars, cbVars, now, slotVars, connections, next_sock, reqVars>>

\* a WebClientManager.disconnect that leaves the row of the session
Web_disconnect_KeepRow(p, sid, u, st, t) ==
    [db |-> st.db,
     lc |-> IF sid \in DOMAIN st.lc THEN Drop(st.lc, sid) ELSE st.lc,
     sk |-> st.sk]

\* WebClientManager.disconnect applied to the state st = [db, lc, sk]
\* (sessions, local_clients of the process, sockets)
Web_disconnect(p, sid, u, st, t) ==
    LET db == delete_session(st.db, sid)
        has_listeners == has_web_listeners(db, u, t)
    IN [db |-> db,
        lc |-> IF sid \in DOMAIN st.lc THEN Drop(st.lc, sid) ELSE st.lc,
        sk |-> IF has_listeners THEN st.sk
               ELSE _notify_mac_apps(p, u, FALSE, st.sk)]

\* the browser, or the network, goes away
WebPeerClose(sid) ==
    /\ sid \in DOMAIN webs
    /\ webs[sid].peer
    /\ webs' = [webs EXCEPT ![sid].peer = FALSE]
    /\ UNCHANGED <<scopeVars, cbVars, now, sessions, slotVars, agentVars, local_clients, next_sid, reqVars>>

\* web_client_endpoint: receive_text raises WebSocketDisconnect and the
\* handler calls WebClientManager.disconnect(client)
WebLoopEnd(sid) ==
    /\ sid \in DOMAIN webs
    /\ ~webs[sid].peer
    /\ phase[webs[sid].proc] = "running"
    /\ LET p == webs[sid].proc
           st == Web_disconnect(p, sid, webs[sid].user_id,
                                [db |-> sessions, lc |-> local_clients[p], sk |-> socks],
                                now)
       IN /\ sessions' = st.db
          /\ local_clients' = [local_clients EXCEPT ![p] = st.lc]
          /\ socks' = st.sk
    /\ webs' = Drop(webs, sid)
    /\ UNCHANGED <<scopeVars, cbVars, now, slotVars, connections, next_sock, next_sid, reqVars>>

\* web_client_endpoint, a {"type": "ping"} frame: update_heartbeat, pong
WebPing(sid) ==
    /\ sid \in DOMAIN webs
    /\ webs[sid].peer
    /\ phase[webs[sid].proc] = "running"
    /\ sessions' = update_heartbeat(sessions, sid, now)
    /\ UNCHANGED <<scopeVars, cbVars, now, slotVars, agentVars, webVars, reqVars>>

\* the loop `for client in disconnected: await self.disconnect(client)`
RECURSIVE DisconnectAll(_, _, _, _)
DisconnectAll(p, F, st, t) ==
    IF F = {} THEN st
    ELSE LET sid == CHOOSE x \in F : \A y \in F : x <= y
         IN DisconnectAll(p, F \ {sid},
                          Web_disconnect(p, sid, local_clients[p][sid].user_id, st, t), t)

\* WebClientManager.broadcast_to_user: send to the local clients of the user;
\* the sends that fail (F, among the sockets whose browser is gone) are
\* followed by disconnect
broadcast_to_user(p, u, F) ==
    /\ phase[p] = "running"
    /\ F \subseteq {sid \in DOMAIN local_clients[p] :
                        local_clients[p][sid].user_id = u /\ ~webs[sid].peer}
    /\ F # {}
    /\ LET st == DisconnectAll(p, F, [db |-> sessions, lc |-> local_clients[p],
                                      sk |-> socks], now)
       IN /\ sessions' = st.db
          /\ local_clients' = [local_clients EXCEPT ![p] = st.lc]
          /\ socks' = st.sk
    /\ UNCHANGED <<scopeVars, cbVars, now, slotVars, connections, next_sock, webs, next_sid, reqVars>>

\* the state of InitRunning after agent A1 of user u1 connected to P1 and
\* agent A2 of user u1 connected to P2
InitListen ==
    /\ now = 0
    /\ ScopeIdle
    /\ CallbackIdle
    /\ sessions = {[id |-> DeviceRowId(d), user_id |-> "u1", instance_id |-> InitHost(d),
                    session_type |-> "device", device_id |-> d,
                    last_heartbeat |-> 0] : d \in Devices}
    /\ slots = {[slot_name |-> InitSlot(p), instance_id |-> p,
                 claimed_at |-> 0, last_heartbeat |-> 0] : p \in Procs}
    /\ phase = [p \in Procs |-> "running"]
    /\ enabled = [p \in Procs |-> TRUE]
    /\ slot_name = [p \in Procs |-> InitSlot(p)]
    /\ hb_task = [p \in Procs |-> TRUE]
    /\ connections = [p \in Procs |->
            [d \in {x \in Devices : InitHost(x) = p} |->
                [websocket |-> InitSock(d), user_id |-> "u1"]]]
    /\ socks = [s \in {1, 2} |->
            [proc |-> IF s = 1 THEN "P1" ELSE "P2",
             device_id |-> IF s = 1 THEN "A1" ELSE "A2",
             user_id |-> "u1", open |-> TRUE, code |-> 0, peer |-> TRUE,
             loop |-> TRUE, lc |-> <<>>, reqs |-> EmptyMap, strays |-> <<>>, events |-> 0,
             pings |-> <<>>]]
    /\ next_sock = 3
    /\ local_clients = [p \in Procs |-> EmptyMap]
    /\ webs = EmptyMap
    /\ next_sid = 1
    /\ pending_requests = [p \in Procs |-> EmptyMap]
    /\ router_pending = [p \in Procs |-> EmptyMap]
    /\ bus = {}
    /\ calls = <<>>
    /\ tasks = EmptyMap

\* --------------------------------------------------------------- listeners
NextListen ==
    \/ TickShort
    \/ \E p \in Procs, tok \in Tokens : Web_connect(p, tok)
    \/ \E sid \in 1..MaxWebSessions : WebPeerClose(sid)
    \/ \E sid \in 1..MaxWebSessions : WebLoopEnd(sid)
    \/ \E sid \in 1..MaxWebSessions : WebPing(sid)
    \/ \E p \in Procs, u \in Users, F \in SUBSET (1..MaxWebSessions) :
          broadcast_to_user(p, u, F)
    \/ \E p \in Procs : Cleanup(p)

SpecListen == InitListen /\ [][NextListen]_vars

\* the read loop of a listener socket always gets to handle the end of its
\* socket (the event loop runs every task that can run)
SpecListenFair ==
    SpecListen /\ \A sid \in 1..MaxWebSessions : WF_vars(WebLoopEnd(sid))

\* the agent sockets that some process holds in its agent map for user u and
\* that can receive frames
AgentSocks(u) ==
    {s \in DOMAIN socks :
        /\ socks[s].user_id = u
        /\ socks[s].open /\ socks[s].peer
        /\ \E p \in Procs : \E d \in DOMAIN connections[p] :
               connections[p][d].websocket = s}

\* a listener row of user u whose heartbeat is at most 120 s old
ActiveListenerRow(u) ==
    \E r \in sessions : /\ r.session_type = "web"
                        /\ r.user_id = u
                        /\ now - r.last_heartbeat <= STALE_SESSION_TIMEOUT_SECONDS

\* C4: UserHasActiveListeners(u) is true iff some listener session of u, on
\* any process, has a heartbeat at most 120 s old (exactly 120 s included);
\* agent sessions of u never count.
C4_ActiveIff ==
    \A u \in Users : has_web_listeners(sessions, u, now) <=> ActiveListenerRow(u)

\* a step that connects or disconnects a listener
ListenerStep ==
    \/ next_sid' # next_sid
    \/ DOMAIN webs' # DOMAIN webs
    \/ local_clients' # local_clients

\* the listeners_changed frames that socket s receives in the step
NewFrames(s) == SubSeq(socks'[s].lc, Len(socks[s].lc) + 1, Len(socks'[s].lc))

\* C5: every connect or disconnect of a listener that changes whether user u
\* has active listeners gives every agent of u exactly one listeners_changed
\* frame carrying the new value, and a connect or disconnect that does not
\* change it gives the agents of u no frame.
C5_OneNotification ==
    [][ListenerStep =>
          \A u \in Users : \A s \in AgentSocks(u) :
              IF has_web_listeners(sessions, u, now)
                     # has_web_listeners(sessions', u, now')
              THEN NewFrames(s) = <<has_web_listeners(sessions', u, now')>>
              ELSE NewFrames(s) = <<>>]_vars

\* user u has a listener socket on some process
ListenerConnected(u) == \E sid \in DOMAIN webs : webs[sid].user_id = u

\* the last listeners_changed frame that socket s received
LastFrame(s) == IF socks[s].lc = <<>> THEN None
                ELSE IF socks[s].lc[Len(socks[s].lc)] THEN "on" ELSE "off"

\* C6: once a listener of user u is connected, every agent of u, on whatever
\* process, eventually receives listeners_changed(active=true); once no
\* listener of u is connected any more, an agent that was told "on"
\* eventually receives listeners_changed(active=false).
C6_RemoteNotified ==
    \A s \in 1..MaxSockets :
        /\ (s \in AgentSocks("u1") /\ ListenerConnected("u1") /\ LastFrame(s) = None)
              ~> (s \notin AgentSocks("u1") \/ LastFrame(s) # None)
        /\ (s \in AgentSocks("u1") /\ ~ListenerConnected("u1") /\ LastFrame(s) = "on")
              ~> (s \notin AgentSocks("u1") \/ ListenerConnected("u1")
                  \/ LastFrame(s) = "off")

\* ----------------------------------------------------- request correlation
\* the ids that one route_request call can need: its correlation id and one
\* request id for each delivery of its request frame
IdsPerCall == MaxRedeliveries + 2

\* str(uuid.uuid4()): an id that was never issued before; the k-th id
\* generated on behalf of call c
NewId(c, k) == IdsPerCall * (c - 1) + k + 1

\* `finally` of ConnectionManager.send_request without the pop
pop_request_Keep(m, rid) == m

\* `finally` of ConnectionManager.send_request:
\* self.pending_requests.pop(request_id, None)
pop_request(m, rid) == IF rid \in DOMAIN m THEN Drop(m, rid) ELSE m

\* `finally` of PubSubRouter.send_request without the pop
pop_correlation_Keep(m, corr) == m

\* `finally` of PubSubRouter.send_request:
\* self._pending_requests.pop(correlation_id, None)
pop_correlation(m, corr) == IF corr \in DOMAIN m THEN Drop(m, corr) ELSE m

\* what a caller observes: a returned payload (of: the request frame it
\* answers) or a raised exception with its message
Payload(rid) == [kind |-> "payload", val |-> "ok", of |-> rid]

Raised(kind, msg) == [kind |-> kind, val |-> msg, of |-> 0]

\* the result dict that handle_message queues for a response frame
AgentResult(kind, rid) ==
    IF kind = "error" THEN [kind |-> "error", val |-> "E: m", of |-> 0]
    ELSE [kind |-> "payload", val |-> "ok", of |-> rid]

\* ConnectionManager.send_request after the wait: raise ValueError
\* "{code}: {message}" for an error result, else return the payload
cm_outcome(result) ==
    IF result.kind = "error" THEN Raised("ValueError", result.val)
    ELSE Payload(result.of)

\* _handle_remote_request: the response frame for what the local handler
\* returned or raised (`"error": {"code": "ERROR", "message": str(e)}`)
remote_response(out) ==
    IF out.kind = "payload" THEN [kind |-> "payload", val |-> out.val, of |-> out.of]
    ELSE [kind |-> "error", val |-> out.val, of |-> 0]

\* PubSubRouter.send_request after the wait: raise
\* ValueError(result["error"]["message"]), else return result["payload"]
router_outcome(result) ==
    IF result.kind = "error" THEN Raised("ValueError", result.val)
    ELSE Payload(result.of)

\* who awaits a ConnectionManager.send_request: a route_request call, or
\* _handle_remote_request serving a bus request
FromCall(c) == [kind |-> "call", call |-> c, corr |-> 0, source_slot |-> None,
                frames |-> 0]

FromBus(m) == [kind |-> "remote", call |-> m.call, corr |-> m.corr,
               source_slot |-> m.source_slot, frames |-> calls[m.call].frames]

\* a ConnectionManager.send_request that installs the pending request
\* before it looks at the agent map
send_request_begin_Install(p, d, origin, ok, st) ==
    LET rid == NewId(origin.call, origin.frames + 1)
        installed == Put(st.pend, rid, [device_id |-> d, queue |-> <<>>])
    IN IF d \notin DOMAIN connections[p]
       THEN [st |-> [st EXCEPT !.pend = installed], raised |-> "not connected"]
       ELSE LET s == connections[p][d].websocket
            IN IF ok
               THEN [st |-> [pend |-> installed,
                             tasks |-> Put(st.tasks, rid, [proc |-> p, device_id |-> d,
                                                          origin |-> origin]),
                             socks |-> [st.socks EXCEPT ![s].reqs = Put(@, rid, 0)]],
                     raised |-> None]
               ELSE [st |-> [st EXCEPT !.pend = pop_request(installed, rid)],
                     raised |-> "send failed"]

\* ConnectionManager.send_request up to the wait on the queue, applied to
\* st = [pend, tasks, socks] (pending_requests of the process, running
\* coroutines, sockets); ok: send_json succeeds
send_request_begin(p, d, origin, ok, st) ==
    IF d \notin DOMAIN connections[p]
    THEN [st |-> st, raised |-> "not connected"]
    ELSE LET rid == NewId(origin.call, origin.frames + 1)
             s == connections[p][d].websocket
             installed == Put(st.pend, rid, [device_id |-> d, queue |-> <<>>])
         IN IF ok
            THEN [st |-> [pend |-> installed,
                          tasks |-> Put(st.tasks, rid, [proc |-> p, device_id |-> d,
                                                       origin |-> origin]),
                          socks |-> [st.socks EXCEPT ![s].reqs = Put(@, rid, 0)]],
                  raised |-> None]
            ELSE [st |-> [st EXCEPT !.pend = pop_request(installed, rid)],
                  raised |-> "send failed"]

\* send_json on the socket that the agent map holds for the device can
\* succeed / can fail
CanSend(p, d) ==
    d \in DOMAIN connections[p] =>
        socks[connections[p][d].websocket].open

CanFail(p, d) ==
    d \in DOMAIN connections[p] =>
        ~(socks[connections[p][d].websocket].open /\ socks[connections[p][d].websocket].peer)

SendOutcomes(p, d) ==
    IF d \notin DOMAIN connections[p] THEN {TRUE}
    ELSE {b \in BOOLEAN : IF b THEN CanSend(p, d) ELSE CanFail(p, d)}

\* a future of PubSubRouter._pending_requests that nobody has resolved
NoResult == [kind |-> "none", val |-> "", of |-> 0]

Unresolved == [done |-> FALSE, res |-> NoResult]

\* the frame that PubSubRouter.send_request publishes
RequestFrame(corr, topic, src, d, c) ==
    [type |-> "request", topic |-> topic, corr |-> corr, source_slot |-> src,
     device_id |-> d, call |-> c, res |-> NoResult, n |-> 0]

\* the frame that _handle_remote_request publishes
ResponseFrame(origin, res, n) ==
    [type |-> "response", topic |-> origin.source_slot, corr |-> origin.corr,
     source_slot |-> None, device_id |-> None, call |-> origin.call,
     res |-> res, n |-> n]

\* a route_request call that has just been made by a caller on process p
NewCall(p, d) ==
    [proc |-> p, device_id |-> d, pc |-> "cm", corr |-> 0, path |-> "local",
     seen |-> <<>>, frames |-> 0, pub_req |-> 0, pub_resp |-> 0, again |-> 0,
     held |-> d \in DOMAIN connections[p]]

\* the call has returned or raised
Done(call, out) == [call EXCEPT !.pc = "done", !.seen = Append(@, out)]

\* the memory that ConnectionManager.send_request works on
CMState(p) == [pend |-> pending_requests[p], tasks |-> tasks, socks |-> socks]

\* the local handler: ConnectionManager.send_request called for route_request
\* call c, up to its wait
Route_local(p, d, c, ok) ==
    LET r == send_request_begin(p, d, FromCall(c), ok, CMState(p))
    IN /\ pending_requests' = [pending_requests EXCEPT ![p] = r.st.pend]
       /\ tasks' = r.st.tasks
       /\ socks' = r.st.socks
       /\ calls' = Append(calls,
                     IF r.raised = None
                     THEN [NewCall(p, d) EXCEPT !.frames = 1]
                     ELSE Done(NewCall(p, d), Raised("ValueError", r.raised)))
       /\ UNCHANGED <<router_pending, bus>>

\* PubSubRouter.send_request raises before it installs a future
Route_fail(p, d, msg) ==
    /\ calls' = Append(calls, Done([NewCall(p, d) EXCEPT !.path = "none"],
                                   Raised("ValueError", msg)))
    /\ UNCHANGED <<pending_requests, tasks, socks, router_pending, bus>>

\* PubSubRouter.send_request, the remote branch up to its wait: install the
\* future, publish on the topic of the target slot; a failed publish raises
\* at once and the `finally` pops the future
Route_remote(p, d, c, target_slot, pubok) ==
    LET corr == NewId(c, 0)
        installed == Put(router_pending[p], corr, Unresolved)
        call == [NewCall(p, d) EXCEPT !.path = "remote", !.corr = corr]
    IN /\ IF pubok
          THEN /\ bus' = bus \cup {RequestFrame(corr, target_slot, slot_name[p], d, c)}
               /\ router_pending' = [router_pending EXCEPT ![p] = installed]
               /\ calls' = Append(calls, [call EXCEPT !.pc = "bus_wait", !.pub_req = 1])
          ELSE /\ bus' = bus
               /\ router_pending' = [router_pending EXCEPT ![p] =
                                        pop_correlation(installed, corr)]
               /\ calls' = Append(calls, Done(call, Raised("ValueError", "publish failed")))
       /\ UNCHANGED <<pending_requests, tasks, socks>>

\* route_request(device_id, ...) called on process p, up to its first wait;
\* max: the number of calls that callers make
route_request(p, d, ok, pubok, max) ==
    /\ phase[p] = "running"
    /\ Len(calls) < max
    /\ LET c == Len(calls) + 1
           rows == get_device_session(sessions, d)
           inst == (CHOOSE r \in rows : TRUE).instance_id
           target == get_slot_for_instance(slots, inst)
       IN IF ~enabled[p]
          THEN ok \in SendOutcomes(p, d) /\ pubok /\ Route_local(p, d, c, ok)
          ELSE IF rows = {}
          THEN ok /\ pubok /\ Route_fail(p, d, "not connected")
          ELSE IF inst = p
          THEN ok \in SendOutcomes(p, d) /\ pubok /\ Route_local(p, d, c, ok)
          ELSE IF target = {}
          THEN ok /\ pubok /\ Route_fail(p, d, "no slot")
          ELSE ok /\ Route_remote(p, d, c, CHOOSE n \in target : TRUE, pubok)
    /\ UNCHANGED <<scopeVars, cbVars, now, sessions, slotVars, connections, next_sock, webVars>>

\* handle_message, type "response", with an entry made for an unknown id
handle_response_Create(pend, rid, result) ==
    IF rid \in DOMAIN pend /\ pend[rid].queue # <<>> THEN pend
    ELSE Put(pend, rid, [device_id |-> None, queue |-> <<result>>])

\* handle_message, type "response": put_nowait on the queue (maxsize 1) of
\* the pending request with that id; queue.Full and an unknown id are logged
handle_response(pend, rid, result) ==
    IF rid \in DOMAIN pend /\ pend[rid].queue = <<>>
    THEN [pend EXCEPT ![rid].queue = <<result>>]
    ELSE pend

\* the read loop hands a response frame to a handle_message whose put
\* replaces what the queue holds
AgentResponse_Replace(s, rid, kind) ==
    /\ Readable(s)
    /\ rid \in DOMAIN socks[s].reqs
    /\ socks[s].reqs[rid] < MaxReplies
    /\ socks' = [socks EXCEPT ![s].reqs[rid] = @ + 1]
    /\ pending_requests' = [pending_requests EXCEPT ![socks[s].proc] =
                               IF rid \in DOMAIN @
                               THEN [@ EXCEPT ![rid].queue = <<AgentResult(kind, rid)>>]
                               ELSE @]
    /\ UNCHANGED <<scopeVars, cbVars, now, sessions, slotVars, connections, next_sock, webVars,
                   router_pending, bus, calls, tasks>>

\* the agent behind socket s answers a request frame it received (again, if
\* it has answered it before); the read loop hands the frame to handle_message
AgentResponse(s, rid, kind) ==
    /\ Readable(s)
    /\ rid \in DOMAIN socks[s].reqs
    /\ socks[s].reqs[rid] < MaxReplies
    /\ socks' = [socks EXCEPT ![s].reqs[rid] = @ + 1]
    /\ pending_requests' = [pending_requests EXCEPT ![socks[s].proc] =
                               handle_response(@, rid, AgentResult(kind, rid))]
    /\ UNCHANGED <<scopeVars, cbVars, now, sessions, slotVars, connections, next_sock, webVars,
                   router_pending, bus, calls, tasks>>

\* the agent behind socket s sends a response frame whose id is not the id
\* of a request frame written to this socket (0: a frame without id)
AgentStray(s, rid, kind) ==
    /\ Readable(s)
    /\ rid \notin DOMAIN socks[s].reqs
    /\ Len(socks[s].strays) < MaxStrays
    /\ socks' = [socks EXCEPT ![s].strays = Append(@, rid)]
    /\ pending_requests' = [pending_requests EXCEPT ![socks[s].proc] =
                               handle_response(@, rid, AgentResult(kind, rid))]
    /\ UNCHANGED <<scopeVars, cbVars, now, sessions, slotVars, connections, next_sock, webVars,
                   router_pending, bus, calls, tasks>>

\* the awaiter of ConnectionManager.send_request gets what it returned or
\* raised: route_request returns it to its caller; _handle_remote_request
\* publishes a response frame on the topic of the source slot (a failed
\* publish is logged)
Deliver(origin, out, pubok, cs, rest) ==
    IF origin.kind = "call"
    THEN /\ pubok
         /\ calls' = [cs EXCEPT ![origin.call] = Done(@, out)]
         /\ bus' = rest
    ELSE /\ calls' = [cs EXCEPT ![origin.call].pub_resp = IF pubok THEN @ + 1 ELSE @]
         /\ bus' = IF pubok
                   THEN rest \cup {ResponseFrame(origin, remote_response(out),
                                                 cs[origin.call].pub_resp + 1)}
                   ELSE rest

\* ConnectionManager.send_request: queue.get returns the queued result
CM_return(rid, pubok) ==
    /\ rid \in DOMAIN tasks
    /\ LET p == tasks[rid].proc
       IN /\ rid \in DOMAIN pending_requests[p]
          /\ pending_requests[p][rid].queue # <<>>
          /\ Deliver(tasks[rid].origin, cm_outcome(pending_requests[p][rid].queue[1]),
                     pubok, calls, bus)
          /\ pending_requests' = [pending_requests EXCEPT ![p] = pop_request(@, rid)]
    /\ tasks' = Drop(tasks, rid)
    /\ UNCHANGED <<scopeVars, cbVars, now, sessions, slotVars, agentVars, webVars, router_pending>>

\* a ConnectionManager.send_request whose queue.get has no timeout
CM_timeout_Never(rid, pubok) ==
    /\ rid \in DOMAIN tasks
    /\ FALSE
    /\ UNCHANGED vars

\* ConnectionManager.send_request: queue.get raises queue.Empty at the timeout
CM_timeout(rid, pubok) ==
    /\ rid \in DOMAIN tasks
    /\ LET p == tasks[rid].proc
       IN /\ rid \in DOMAIN pending_requests[p] => pending_requests[p][rid].queue = <<>>
          /\ Deliver(tasks[rid].origin, Raised("TimeoutError", "did not respond"),
                     pubok, calls, bus)
          /\ pending_requests' = [pending_requests EXCEPT ![p] = pop_request(@, rid)]
    /\ tasks' = Drop(tasks, rid)
    /\ UNCHANGED <<scopeVars, cbVars, now, sessions, slotVars, agentVars, webVars, router_pending>>

\* _handle_message, type "response", without `if not future.done()`
resolve_AlsoDone(pend, corr, res) ==
    IF corr \in DOMAIN pend
    THEN [pend EXCEPT ![corr] = [done |-> TRUE, res |-> res]]
    ELSE pend

\* _handle_message, type "response": resolve the future of the correlation
\* if there is one and it is not done
resolve(pend, corr, res) ==
    IF corr \in DOMAIN pend /\ ~pend[corr].done
    THEN [pend EXCEPT ![corr] = [done |-> TRUE, res |-> res]]
    ELSE pend

\* the processes whose subscription receives what is published on a topic
Subscribers(topic) ==
    {p \in Procs : phase[p] = "running" /\ enabled[p] /\ slot_name[p] = topic}

\* the bus after a delivery of m: acked, or kept for another delivery
AfterDelivery(m, again) == IF again THEN bus ELSE bus \ {m}

\* the calls after a delivery of a frame of call c: `again` counts the
\* deliveries that the bus repeats
Delivered(c, again) ==
    IF again THEN [calls EXCEPT ![c].again = @ + 1] ELSE calls

\* the number of deliveries that the bus has repeated so far
RECURSIVE Redelivered(_)
Redelivered(n) == IF n = 0 THEN 0 ELSE calls[n].again + Redelivered(n - 1)

\* _handle_remote_request: the local handler is
\* ConnectionManager.send_request; what it raises before its wait is
\* answered at once with an error frame
handle_remote_request(p, m, again, ok, pubok) ==
    LET r == send_request_begin(p, m.device_id, FromBus(m), ok, CMState(p))
    IN /\ pending_requests' = [pending_requests EXCEPT ![p] = r.st.pend]
       /\ tasks' = r.st.tasks
       /\ socks' = r.st.socks
       /\ IF r.raised = None
          THEN /\ pubok
               /\ calls' = [Delivered(m.call, again) EXCEPT ![m.call].frames = @ + 1]
               /\ bus' = AfterDelivery(m, again)
          ELSE Deliver(FromBus(m), Raised("ValueError", r.raised), pubok,
                       Delivered(m.call, again), AfterDelivery(m, again))
       /\ UNCHANGED <<router_pending>>

\* _message_callback and _handle_message for one delivery of frame m to a
\* process subscribed to its topic
BusDeliver(m, again, ok, pubok) ==
    /\ m \in bus
    /\ again => Redelivered(Len(calls)) < MaxRedeliveries
    /\ \E p \in Subscribers(m.topic) :
          IF m.type = "request"
          THEN /\ ok \in SendOutcomes(p, m.device_id)
               /\ handle_remote_request(p, m, again, ok, pubok)
          ELSE /\ ok /\ pubok
               /\ router_pending' = [router_pending EXCEPT ![p] =
                                        resolve(@, m.corr, m.res)]
               /\ bus' = AfterDelivery(m, again)
               /\ calls' = Delivered(m.call, again)
               /\ UNCHANGED <<pending_requests, tasks, socks>>
    /\ UNCHANGED <<scopeVars, cbVars, now, sessions, slotVars, connections, next_sock, webVars>>

\* PubSubRouter.send_request: wait_for returns the result of the future
Route_finish(c) ==
    /\ c \in DOMAIN calls
    /\ calls[c].pc = "bus_wait"
    /\ LET p == calls[c].proc
           corr == calls[c].corr
       IN /\ corr \in DOMAIN router_pending[p]
          /\ router_pending[p][corr].done
          /\ calls' = [calls EXCEPT ![c] = Done(@, router_outcome(router_pending[p][corr].res))]
          /\ router_pending' = [router_pending EXCEPT ![p] = pop_correlation(@, corr)]
    /\ UNCHANGED <<scopeVars, cbVars, now, sessions, slotVars, agentVars, webVars,
                   pending_requests, bus, tasks>>

\* PubSubRouter.send_request: wait_for raises asyncio.TimeoutError
Route_timeout(c) ==
    /\ c \in DOMAIN calls
    /\ calls[c].pc = "bus_wait"
    /\ LET p == calls[c].proc
           corr == calls[c].corr
       IN /\ corr \in DOMAIN router_pending[p] => ~router_pending[p][corr].done
          /\ calls' = [calls EXCEPT ![c] = Done(@, Raised("TimeoutError", "did not respond"))]
          /\ router_pending' = [router_pending EXCEPT ![p] = pop_correlation(@, corr)]
    /\ UNCHANGED <<scopeVars, cbVars, now, sessions, slotVars, agentVars, webVars,
                   pending_requests, bus, tasks>>

\* ----------------------------------------------------------------- routing
MaxIds == IdsPerCall * MaxCalls

Route_start(p, d, ok, pubok) == route_request(p, d, ok, pubok, MaxCalls)

\* the state of InitRunning after agent A1 of user u1 connected to P1
InitRoute ==
    /\ now = 0
    /\ ScopeIdle
    /\ CallbackIdle
    /\ sessions = {[id |-> DeviceRowId("A1"), user_id |-> "u1", instance_id |-> "P1",
                    session_type |-> "device", device_id |-> "A1",
                    last_heartbeat |-> 0]}
    /\ slots = {[slot_name |-> InitSlot(p), instance_id |-> p,
                 claimed_at |-> 0, last_heartbeat |-> 0] : p \in Procs}
    /\ phase = [p \in Procs |-> "running"]
    /\ enabled = [p \in Procs |-> TRUE]
    /\ slot_name = [p \in Procs |-> InitSlot(p)]
    /\ hb_task = [p \in Procs |-> TRUE]
    /\ connections = [p \in Procs |->
            IF p = "P1" THEN Put(EmptyMap, "A1", [websocket |-> 1, user_id |-> "u1"])
            ELSE EmptyMap]
    /\ socks = Put(EmptyMap, 1,
            [proc |-> "P1", device_id |-> "A1", user_id |-> "u1", open |-> TRUE,
             code |-> 0, peer |-> TRUE, loop |-> TRUE, lc |-> <<>>, reqs |-> EmptyMap, strays |-> <<>>, events |-> 0,
             pings |-> <<>>])
    /\ next_sock = 2
    /\ local_clients = [p \in Procs |-> EmptyMap]
    /\ webs = EmptyMap
    /\ next_sid = 1
    /\ pending_requests = [p \in Procs |-> EmptyMap]
    /\ router_pending = [p \in Procs |-> EmptyMap]
    /\ bus = {}
    /\ calls = <<>>
    /\ tasks = EmptyMap

NextRoute ==
    \/ \E p \in Procs, d \in Devices, ok, pubok \in BOOLEAN : Route_start(p, d, ok, pubok)
    \/ \E s \in 1..MaxSockets, rid \in 1..MaxIds, kind \in {"payload", "error"} :
          AgentResponse(s, rid, kind)
    \/ \E rid \in 1..MaxIds, pubok \in BOOLEAN : CM_return(rid, pubok)
    \/ \E rid \in 1..MaxIds, pubok \in BOOLEAN : CM_timeout(rid, pubok)
    \/ \E m \in bus, again, ok, pubok \in BOOLEAN : BusDeliver(m, again, ok, pubok)
    \/ \E c \in 1..MaxCalls : Route_finish(c)
    \/ \E c \in 1..MaxCalls : Route_timeout(c)
    \/ \E s \in 1..MaxSockets : AgentPeerClose(s)
    \/ \E s \in 1..MaxSockets : AgentLoopEnd(s)

SpecRoute == InitRoute /\ [][NextRoute]_vars

\* the calls that were issued correlation id x by PubSubRouter.send_request
CallsOf(x) == {c \in DOMAIN calls : calls[c].corr = x}

\* the outcomes that callers have observed for correlation id x
OutcomesOf(x) == {<<c, i>> : c \in CallsOf(x), i \in 1..MaxCalls} \cap
                 {<<c, i>> \in (1..MaxCalls) \X (1..MaxCalls) :
                      c \in DOMAIN calls /\ i <= Len(calls[c].seen)}

\* the response frames of call c that are still on the bus
FramesOnBus(c) == {m \in bus : m.call = c}

\* C2: for every correlation id issued by Route the caller observes exactly
\* one outcome, a single payload or error or else TIMEOUT, never both and
\* never two results: a call has observed an outcome iff it has completed,
\* no correlation id has more than one outcome, what a completed call has
\* observed never changes, a future that was resolved never changes its
\* result (a duplicate reply is discarded), and a completed call has no
\* future that a late reply could resolve.
C2_OneOutcome ==
    /\ [](\A c \in DOMAIN calls :
            /\ Len(calls[c].seen) <= 1
            /\ calls[c].pc = "done" <=> Len(calls[c].seen) = 1
            /\ calls[c].pc = "done" /\ calls[c].corr # 0
                  => calls[c].corr \notin DOMAIN router_pending[calls[c].proc])
    /\ [](\A x \in 1..MaxIds : Cardinality(OutcomesOf(x)) <= 1)
    /\ [][/\ \A c \in DOMAIN calls :
                calls[c].pc = "done" => calls'[c].seen = calls[c].seen
          /\ \A p \in Procs : \A x \in DOMAIN router_pending[p] :
                router_pending[p][x].done /\ x \in DOMAIN router_pending'[p]
                    => router_pending'[p][x] = router_pending[p][x]]_vars

\* C2 witness: a remote call timed out, and the response frame published for
\* it was delivered afterwards and dropped
C2_Witness ==
    \E c \in DOMAIN calls :
        /\ calls[c].path = "remote"
        /\ calls[c].seen = <<Raised("TimeoutError", "did not respond")>>
        /\ calls[c].pub_resp >= 1
        /\ FramesOnBus(c) = {}

\* C7: a request whose target agent is on another process causes exactly
\* one bus publication to the slot topic of the target process and exactly
\* one bus publication returning the response to the topic of the source
\* slot, and the caller receives the agent's payload: a remote call never
\* has more than one publication each way, and a remote call that returned a
\* payload has exactly one each way and the payload answers a request frame
\* written for that call.
C7_OnePublicationEachWay ==
    \A c \in DOMAIN calls :
        calls[c].path = "remote" =>
            /\ calls[c].pub_req <= 1
            /\ calls[c].pub_resp <= 1
            /\ calls[c].pc = "done" /\ calls[c].seen[1].kind = "payload"
                  => /\ calls[c].pub_req = 1
                     /\ calls[c].pub_resp = 1
                     /\ \E k \in 1..calls[c].frames : calls[c].seen[1].of = NewId(c, k)

\* C9: after a Route or SendRequest call has completed, by reply, agent
\* error, timeout or send failure, its id is in no pending map: every key of
\* ConnectionManager.pending_requests belongs to a send_request coroutine of
\* that process that is still running, and every key of
\* PubSubRouter._pending_requests belongs to a call of that process that is
\* still waiting.
C9_NoLeak ==
    \A p \in Procs :
        /\ \A rid \in DOMAIN pending_requests[p] :
              rid \in DOMAIN tasks /\ tasks[rid].proc = p
        /\ \A x \in DOMAIN router_pending[p] :
              \E c \in DOMAIN calls : /\ calls[c].proc = p
                                      /\ calls[c].corr = x
                                      /\ calls[c].pc = "bus_wait"

\* C9 witness: a remote call returned the payload, another call ended by a
\* timeout or a failed send, and nothing is pending anywhere
C9_Witness ==
    /\ \E c \in DOMAIN calls : /\ calls[c].path = "remote"
                               /\ calls[c].pc = "done"
                               /\ calls[c].seen[1].kind = "payload"
    /\ \E c \in DOMAIN calls : /\ calls[c].pc = "done"
                               /\ calls[c].seen[1].val \in {"did not respond", "send failed"}
    /\ \A p \in Procs : pending_requests[p] = EmptyMap /\ router_pending[p] = EmptyMap
    /\ tasks = EmptyMap

\* a remote call whose publish of the request frame failed
PublishFailed(c) == calls[c].path = "remote" /\ calls[c].pub_req = 0

\* C10: if the publish of the request frame fails, Route fails at once with
\* a routing error, without waiting for the deadline, and the pending
\* correlation it installed is removed: such a call is never waiting, it has
\* raised the routing error and not TIMEOUT, and its correlation id is not in
\* the pending map.
C10_PublishFailsFast ==
    \A c \in DOMAIN calls :
        PublishFailed(c) =>
            /\ calls[c].pc = "done"
            /\ calls[c].seen = <<Raised("ValueError", "publish failed")>>
            /\ calls[c].corr \notin DOMAIN router_pending[calls[c].proc]
            /\ FramesOnBus(c) = {}

\* C10 witness: a publish failed while another call of the same process is
\* waiting for its response
C10_Witness ==
    \E c, c2 \in DOMAIN calls :
        /\ PublishFailed(c)
        /\ calls[c2].proc = calls[c].proc
        /\ calls[c2].pc = "bus_wait"

\* ----------------------------------------------------------- stray frames
Route_once(p, d, ok, pubok) == route_request(p, d, ok, pubok, MaxChurnCalls)

NextStray ==
    \/ \E p \in Procs, d \in Devices, ok, pubok \in BOOLEAN : Route_once(p, d, ok, pubok)
    \/ \E s \in 1..MaxSockets, rid \in 1..MaxIds, kind \in {"payload", "error"} :
          AgentResponse(s, rid, kind)
    \/ \E s \in 1..MaxSockets, rid \in 0..MaxIds, kind \in {"payload", "error"} :
          AgentStray(s, rid, kind)
    \/ \E rid \in 1..MaxIds, pubok \in BOOLEAN : CM_return(rid, pubok)
    \/ \E rid \in 1..MaxIds, pubok \in BOOLEAN : CM_timeout(rid, pubok)
    \/ \E m \in bus, again, ok, pubok \in BOOLEAN : BusDeliver(m, again, ok, pubok)
    \/ \E c \in 1..MaxCalls : Route_finish(c)
    \/ \E c \in 1..MaxCalls : Route_timeout(c)
    \/ \E s \in 1..MaxSockets : AgentPeerClose(s)
    \/ \E s \in 1..MaxSockets : AgentLoopEnd(s)

SpecStray == InitRoute /\ [][NextStray]_vars

\* the step handles a response frame with id rid read from agent socket s
AgentFrameStep(s, rid) ==
    /\ s \in DOMAIN socks
    /\ \/ socks'[s].strays = Append(socks[s].strays, rid)
       \/ /\ rid \in DOMAIN socks[s].reqs
          /\ socks'[s].reqs = [socks[s].reqs EXCEPT ![rid] = @ + 1]

\* the step handles a delivery of response frame m: the frame is acked, or
\* it is kept for another delivery and nothing is done for a request frame
BusResponseStep(m) ==
    /\ m \in bus
    /\ m.type = "response"
    /\ \/ bus' = bus \ {m}
       \/ /\ bus' = bus
          /\ calls' = [calls EXCEPT ![m.call].again = @ + 1]
          /\ tasks' = tasks /\ socks' = socks

\* no process that receives frame m has a future for its correlation id
UnknownCorrelation(m) ==
    \A p \in Subscribers(m.topic) : m.corr \notin DOMAIN router_pending[p]

\* the agent maps, the pending maps and the registry are what they were
NothingMutated ==
    /\ connections' = connections
    /\ pending_requests' = pending_requests
    /\ router_pending' = router_pending
    /\ sessions' = sessions

\* C11: a response frame whose id matches no pending request is dropped and
\* mutates no state: when a response frame read from an agent socket carries
\* an id that is not in the pending map of the process, or a response frame
\* delivered by the bus carries a correlation id for which the receiving
\* process has no future, the agent maps, both pending maps and the session
\* registry are unchanged by the step.
C11_UnknownDropped ==
    [][/\ \A s \in 1..MaxSockets : \A rid \in 0..MaxIds :
             AgentFrameStep(s, rid) /\ rid \notin DOMAIN pending_requests[socks[s].proc]
                 => NothingMutated
       /\ \A m \in bus :
             BusResponseStep(m) /\ UnknownCorrelation(m) => NothingMutated]_vars

\* C11 witness: an agent sent a response with an id that was never issued
\* to it while a request was pending on its process, and the response frame
\* of a call that had timed out was delivered by the bus
C11_Witness ==
    /\ \E s \in DOMAIN socks :
          /\ socks[s].strays # <<>>
          /\ socks[s].reqs # EmptyMap
    /\ \E c \in DOMAIN calls :
          /\ calls[c].seen = <<Raised("TimeoutError", "did not respond")>>
          /\ calls[c].pub_resp >= 1
          /\ FramesOnBus(c) = {}
          /\ calls[c].again = 0

\* routing while agents connect and reconnect and the registry is collected
Route_churn(p, d, ok, pubok) == route_request(p, d, ok, pubok, MaxChurnCalls)

\* agent A1 connects again, to any process
Reconnect(p) == CM_connect(p, "u1", "A1")

NextChurn ==
    \/ \E p \in Procs, d \in Devices, ok, pubok \in BOOLEAN : Route_churn(p, d, ok, pubok)
    \/ \E s \in 1..MaxSockets, rid \in 1..MaxIds, kind \in {"payload", "error"} :
          AgentResponse(s, rid, kind)
    \/ \E rid \in 1..MaxIds, pubok \in BOOLEAN : CM_return(rid, pubok)
    \/ \E rid \in 1..MaxIds, pubok \in BOOLEAN : CM_timeout(rid, pubok)
    \/ \E m \in bus, again, ok, pubok \in BOOLEAN : BusDeliver(m, again, ok, pubok)
    \/ \E c \in 1..MaxCalls : Route_finish(c)
    \/ \E c \in 1..MaxCalls : Route_timeout(c)
    \/ \E p \in Procs : Reconnect(p)
    \/ \E s \in 1..MaxSockets : AgentLoopEnd(s)
    \/ TickShort
    \/ \E p \in Procs : Cleanup(p)

SpecChurn == InitRoute /\ [][NextChurn]_vars

\* C8: a request whose target agent is held by the process that receives
\* the Route call takes the local path: exactly one request frame is written
\* to the agent's socket (none only if the write itself fails) and nothing is
\* published on the bus for the call.
C8_LocalPath ==
    \A c \in DOMAIN calls :
        calls[c].held =>
            /\ calls[c].path = "local"
            /\ calls[c].pub_req = 0 /\ calls[c].pub_resp = 0
            /\ \/ calls[c].frames = 1
               \/ calls[c].seen = <<Raised("ValueError", "send failed")>>

\* ------------------------------------------------------- agent replacement
NextReplace ==
    \/ \E p \in Procs : Reconnect(p)
    \/ \E s \in 1..MaxSockets : AgentPeerClose(s)
    \/ \E s \in 1..MaxSockets : AgentLoopEnd(s)
    \/ \E s \in 1..MaxSockets : AgentPong(s)
    \/ TickShort

SpecReplace == InitRoute /\ [][NextReplace]_vars

\* the read loop of an agent socket always gets to handle the end of its
\* socket (the event loop runs every task that can run)
SpecReplaceFair ==
    SpecReplace /\ \A s \in 1..MaxSockets : WF_vars(AgentLoopEnd(s))

\* the instance that the registry names for the device
AgentLocation(db, d) == {r.instance_id : r \in get_device_session(db, d)}

\* the device is connected to process p: the agent map cn of p holds a
\* socket of sk for it that is open at both ends and is being read
ConnectedTo(sk, cn, d, p) ==
    /\ d \in DOMAIN cn[p]
    /\ sk[cn[p][d].websocket].open
    /\ sk[cn[p][d].websocket].peer
    /\ sk[cn[p][d].websocket].loop

\* socket s2 of the device was accepted by another process after socket s1,
\* and the agent has not left s1
Superseded(s1, s2) ==
    /\ s1 \in DOMAIN socks /\ s2 \in DOMAIN socks
    /\ s1 < s2
    /\ socks[s1].device_id = socks[s2].device_id
    /\ socks[s1].user_id # None /\ socks[s2].user_id # None
    /\ socks[s1].proc # socks[s2].proc
    /\ socks[s1].peer

\* the server closed socket s with 4002, or the agent has left it
Replaced(s) == s \in DOMAIN socks /\ (socks[s].code = 4002 \/ ~socks[s].peer)

\* C12: agent replacement across processes: when an agent that is connected
\* to one process connects to another process, the registry names the new
\* process from the connect on and for as long as the agent stays connected
\* to it, and the socket at the first process is eventually closed with
\* code 4002 (unless the agent itself has left it).
C12_ReplacedAcrossProcesses ==
    /\ [][\A p \in Procs :
            next_sock' # next_sock /\ socks'[next_sock].proc = p
                => AgentLocation(sessions', socks'[next_sock].device_id) = {InstanceId(p)}]_vars
    /\ [][\A d \in Devices : \A p \in Procs :
            /\ AgentLocation(sessions, d) = {InstanceId(p)}
            /\ ConnectedTo(socks, connections, d, p)
            /\ ConnectedTo(socks', connections', d, p)
            /\ next_sock' = next_sock
            => AgentLocation(sessions', d) = {InstanceId(p)}]_vars
    /\ \A s1, s2 \in 1..MaxSockets :
          Superseded(s1, s2) ~> Replaced(s1)

\* ------------------------------------------------------ stale session GC
NextGC ==
    \/ TickShort
    \/ \E p \in Procs : Cleanup(p)
    \/ \E s \in 1..MaxSockets : AgentPong(s)
    \/ \E p \in Procs, d \in Devices, ok, pubok \in BOOLEAN : Route_once(p, d, ok, pubok)
    \/ \E s \in 1..MaxSockets, rid \in 1..MaxIds, kind \in {"payload", "error"} :
          AgentResponse(s, rid, kind)
    \/ \E rid \in 1..MaxIds, pubok \in BOOLEAN : CM_return(rid, pubok)
    \/ \E rid \in 1..MaxIds, pubok \in BOOLEAN : CM_timeout(rid, pubok)
    \/ \E m \in bus, again, ok, pubok \in BOOLEAN : BusDeliver(m, again, ok, pubok)
    \/ \E c \in 1..MaxCalls : Route_finish(c)
    \/ \E c \in 1..MaxCalls : Route_timeout(c)

SpecGC == InitRoute /\ [][NextGC]_vars

\* the loop of web_clients.cleanup_stale_sessions keeps running on every
\* process (it logs what its body raises)
SpecGCFair == SpecGC /\ \A p \in Procs : WF_vars(Cleanup(p))

\* the step deletes rows of the registry and does nothing else: a run of the
\* garbage collector (a disconnect changes the agent map and the socket, a
\* pong and a connect write a row)
GCStep ==
    /\ sessions' \subseteq sessions
    /\ sessions' # sessions
    /\ UNCHANGED <<agentVars, webVars, slotVars, reqVars, cbVars>>

\* the registry holds a row of device d with heartbeat hb, more than 120 s old
StaleRow(d, hb) ==
    \E r \in sessions : /\ r.device_id = d
                        /\ r.last_heartbeat = hb
                        /\ now - hb > STALE_SESSION_TIMEOUT_SECONDS

\* the step is a Route for device d made on process p
RouteStep(p, d) ==
    /\ Len(calls') = Len(calls) + 1
    /\ calls'[Len(calls')].proc = p
    /\ calls'[Len(calls')].device_id = d

NextSlot ==
    \/ Tick
    \/ \E p \in Procs : Router_connect_ok(p)
    \/ \E p \in Procs : Router_connect_noslot(p)
    \/ \E p \in Procs : Router_connect_nobus(p)
    \/ \E p \in Procs : Router_heartbeat(p)
    \/ \E p \in Procs : Shutdown(p)
    \/ \E p \in Procs : Crash(p)
    \/ \E p \in Procs : Restart(p)

SpecSlot == Init /\ [][NextSlot]_vars

\* a lease that is inside the stale window: owned, and heartbeat at most
\* SLOT_TIMEOUT seconds old
LeaseLive(r, t) ==
    /\ r.instance_id # None
    /\ r.last_heartbeat # NoTime
    /\ t - r.last_heartbeat <= SLOT_TIMEOUT

ClaimStep(p) ==
    /\ phase[p] = "new"
    /\ phase'[p] = "running"
    /\ slot_name'[p] # None

\* the rows that nobody owns or whose heartbeat is more than 5 minutes old
Reclaimable ==
    {r \in slots : \/ r.instance_id = None
                   \/ /\ r.last_heartbeat # NoTime
                      /\ now - r.last_heartbeat > SLOT_TIMEOUT}

NextLease ==
    \/ Tick
    \/ \E p \in Procs : Router_heartbeat(p)
    \/ \E p \in Procs : Crash(p)
    \/ \E p \in Procs : Shutdown(p)
    \/ \E p \in Procs, d \in Devices, ok, pubok \in BOOLEAN : Route_once(p, d, ok, pubok)
    \/ \E c \in 1..MaxCalls : Route_timeout(c)

SpecLease == InitRoute /\ [][NextLease]_vars

\* the instance has an active slot: a row names it and its lease is inside
\* the 5-minute window
ActiveSlot(inst) == \E r \in slots : r.instance_id = inst /\ LeaseLive(r, now)

\* C16: when the registry names another instance as the owner of the agent
\* and that instance has no active slot (no row names it, or the lease of
\* its row is stale), Route fails at once with the routing error, publishes
\* nothing on the bus and installs no pending correlation.
C16_NoActiveSlot ==
    [][\A p \in Procs : \A d \in Devices : \A inst \in Procs \cup {"local"} :
          /\ RouteStep(p, d)
          /\ enabled[p]
          /\ AgentLocation(sessions, d) = {inst}
          /\ inst # p
          /\ ~ActiveSlot(inst)
          => /\ calls'[Len(calls')].pc = "done"
             /\ calls'[Len(calls')].seen = <<Raised("ValueError", "no slot")>>
             /\ bus' = bus
             /\ router_pending' = router_pending]_vars

\* -------------------------------------------------------------- event pipe
\* the k-th event frame that the agent behind socket s sends
EventId(s, k) == <<s, k>>

\* TopicSlotRepository.get_all_active_slots
get_all_active_slots(db, t) ==
    {r \in db : /\ r.instance_id # None
                /\ r.last_heartbeat # NoTime
                /\ r.last_heartbeat >= t - SLOT_TIMEOUT}

\* the bus frame {type: "event", userID, ...} on the topic of a slot
EventFrame(topic, u, e) == [type |-> "event", topic |-> topic, user_id |-> u, event |-> e]

\* PubSubRouter.broadcast_characteristic_update: the frames published, one
\* on the topic of every active slot but the own one
broadcast_characteristic_update(p, u, e) ==
    IF ~enabled[p] THEN {}
    ELSE {EventFrame(r.slot_name, u, e) :
              r \in {x \in get_all_active_slots(slots, now) : x.slot_name # slot_name[p]}}

\* the local clients of user u on process p
ClientsOf(p, u) == {sid \in DOMAIN local_clients[p] : local_clients[p][sid].user_id = u}

\* handle_message, type "event", action "characteristic.updated", read from
\* agent socket s: WebClientManager.broadcast_characteristic_update to the
\* local clients of the user (F: the sends that fail, followed by
\* disconnect), then the publication on the bus
AgentEvent(s, F) ==
    /\ Readable(s)
    /\ socks[s].events < MaxEvents
    /\ LET p == socks[s].proc
           d == socks[s].device_id
           e == EventId(s, socks[s].events + 1)
           counted == [socks EXCEPT ![s].events = @ + 1]
       IN IF d \notin DOMAIN connections[p]
          THEN /\ F = {}
               /\ socks' = counted
               /\ UNCHANGED <<sessions, local_clients, webs, bus>>
          ELSE LET u == connections[p][d].user_id
                   st == DisconnectAll(p, F, [db |-> sessions, lc |-> local_clients[p],
                                              sk |-> counted], now)
               IN /\ F \subseteq {sid \in ClientsOf(p, u) : ~webs[sid].peer}
                  /\ webs' = [sid \in DOMAIN webs |->
                                 IF sid \in ClientsOf(p, u) \ F /\ webs[sid].peer
                                 THEN [webs[sid] EXCEPT !.ev = @ \cup {e}]
                                 ELSE webs[sid]]
                  /\ sessions' = st.db
                  /\ local_clients' = [local_clients EXCEPT ![p] = st.lc]
                  /\ socks' = st.sk
                  /\ bus' = bus \cup broadcast_characteristic_update(p, u, e)
    /\ UNCHANGED <<scopeVars, cbVars, now, slotVars, connections, next_sock, next_sid,
                   pending_requests, router_pending, calls, tasks>>

\* _message_callback and _handle_message for a delivery of a frame that is
\* neither "response" nor "request": logged as unknown, acked
BusDeliverOther(m) ==
    /\ m \in bus
    /\ m.type \notin {"request", "response"}
    /\ Subscribers(m.topic) # {}
    /\ bus' = bus \ {m}
    /\ UNCHANGED <<scopeVars, cbVars, now, sessions, slotVars, agentVars, webVars,
                   pending_requests, router_pending, calls, tasks>>

\* the state of InitRoute after a listener of u1 connected to each process
InitEvent ==
    /\ now = 0
    /\ ScopeIdle
    /\ CallbackIdle
    /\ sessions = {[id |-> DeviceRowId("A1"), user_id |-> "u1", instance_id |-> "P1",
                    session_type |-> "device", device_id |-> "A1",
                    last_heartbeat |-> 0]}
                  \cup {[id |-> InitSock(d), user_id |-> "u1", instance_id |-> InitHost(d),
                         session_type |-> "web", device_id |-> None,
                         last_heartbeat |-> 0] : d \in Devices}
    /\ slots = {[slot_name |-> InitSlot(p), instance_id |-> p,
                 claimed_at |-> 0, last_heartbeat |-> 0] : p \in Procs}
    /\ phase = [p \in Procs |-> "running"]
    /\ enabled = [p \in Procs |-> TRUE]
    /\ slot_name = [p \in Procs |-> InitSlot(p)]
    /\ hb_task = [p \in Procs |-> TRUE]
    /\ connections = [p \in Procs |->
            IF p = "P1" THEN Put(EmptyMap, "A1", [websocket |-> 1, user_id |-> "u1"])
            ELSE EmptyMap]
    /\ socks = Put(EmptyMap, 1,
            [proc |-> "P1", device_id |-> "A1", user_id |-> "u1", open |-> TRUE,
             code |-> 0, peer |-> TRUE, loop |-> TRUE, lc |-> <<TRUE>>,
             reqs |-> EmptyMap, strays |-> <<>>, events |-> 0,
             pings |-> <<>>])
    /\ next_sock = 2
    /\ local_clients = [p \in Procs |->
            [sid \in {InitSock(d) : d \in {x \in Devices : InitHost(x) = p}} |->
                [user_id |-> "u1"]]]
    /\ webs = [sid \in {1, 2} |->
            [proc |-> IF sid = 1 THEN "P1" ELSE "P2", user_id |-> "u1",
             peer |-> TRUE, ev |-> {}]]
    /\ next_sid = 3
    /\ pending_requests = [p \in Procs |-> EmptyMap]
    /\ router_pending = [p \in Procs |-> EmptyMap]
    /\ bus = {}
    /\ calls = <<>>
    /\ tasks = EmptyMap

NextEvent ==
    \/ \E s \in 1..MaxSockets, F \in SUBSET (1..MaxWebSessions) : AgentEvent(s, F)
    \/ \E m \in bus : BusDeliverOther(m)
    \/ \E sid \in 1..MaxWebSessions : WebPeerClose(sid)
    \/ \E sid \in 1..MaxWebSessions : WebLoopEnd(sid)
    \/ \E s \in 1..MaxSockets : AgentPeerClose(s)
    \/ \E s \in 1..MaxSockets : AgentLoopEnd(s)

SpecEvent == InitEvent /\ [][NextEvent]_vars

\* the subscription hands every published frame to the router, and the read
\* loop of a listener socket gets to handle the end of its socket
SpecEventFair ==
    /\ SpecEvent
    /\ WF_vars(\E m \in bus : BusDeliverOther(m))
    /\ \A sid \in 1..MaxWebSessions : WF_vars(WebLoopEnd(sid))

\* the agent behind socket s, held by its process, has sent its k-th event
EventSent(s, k) == s \in DOMAIN socks /\ socks[s].events >= k

\* listener sid has the event, or its socket is gone
EventSeen(sid, e) == sid \in DOMAIN webs => (e \in webs[sid].ev \/ ~webs[sid].peer)

\* C17: an event frame sent by an agent of user u is delivered to every
\* listener of u on every process: in the step that handles the frame every
\* listener of u at the process of the agent gets it, and every listener of
\* u at any other process eventually gets it (through the bus), unless its
\* socket has gone.
C17_EventFanOut ==
    /\ [][\A s \in DOMAIN socks : \A sid \in DOMAIN webs :
            /\ socks'[s].events = socks[s].events + 1
            /\ webs[sid].user_id = socks[s].user_id
            /\ webs[sid].proc = socks[s].proc
            /\ webs[sid].peer
            => EventId(s, socks'[s].events) \in webs'[sid].ev]_vars
    /\ \A s \in 1..MaxSockets : \A k \in 1..MaxEvents : \A sid \in 1..MaxWebSessions :
          (EventSent(s, k) /\ sid \in DOMAIN webs /\ webs[sid].user_id = socks[s].user_id)
              ~> EventSeen(sid, EventId(s, k))

\* ============================================================ scope router
\* home_app.py and homes_app.py.  A str is the sequence of its characters.

\* HOME_ID_PATTERN: {8}
HexLen == 8

\* Python None where a str may stand; no str, since a character is one symbol
Absent == <<None>>

\* the first path segments of the requests, and the arguments of
\* validate_home_id: up to MaxTail characters out of a hex digit in lower
\* case, one in upper case, a letter that is no hex digit and the line feed,
\* alone or after six hex digits
Segments ==
    LET tails == UNION {[1..n -> {"a", "F", "g", "\n"}] : n \in 0..MaxTail}
    IN  tails \cup {<<"a", "B", "c", "D", "1", "2">> \o t : t \in tails}

\* str.lower()
lower(x) ==
    [i \in 1..Len(x) |->
        CASE x[i] = "A" -> "a" [] x[i] = "B" -> "b" [] x[i] = "C" -> "c"
          [] x[i] = "D" -> "d" [] x[i] = "E" -> "e" [] x[i] = "F" -> "f"
          [] x[i] = "G" -> "g" [] OTHER -> x[i]]

\* the characters [0-9a-f] matches under re.IGNORECASE
HexChars == {"0", "1", "2", "3", "4", "5", "6", "7", "8", "9",
             "a", "b", "c", "d", "e", "f", "A", "B", "C", "D", "E", "F"}

\* a str of exactly eight hex digits, in either case
EightHex(x) ==
    /\ Len(x) = HexLen
    /\ \A i \in 1..HexLen : x[i] \in HexChars

\* HOME_ID_PATTERN.match(x) for r'^[0-9a-f]{8}$': eight hex digits from the
\* start, then $, which matches at the end of the str and also just before
\* a line feed that is its last character
HOME_ID_PATTERN_match(x) ==
    /\ Len(x) >= HexLen
    /\ \A i \in 1..HexLen : x[i] \in HexChars
    /\ \/ Len(x) = HexLen
       \/ /\ Len(x) = HexLen + 1
          /\ x[HexLen + 1] = "\n"

\* validate_home_id: None for a falsy or unmatched argument, else lower()
validate_home_id(x) ==
    IF x = Absent \/ x = <<>> \/ ~HOME_ID_PATTERN_match(x)
    THEN Absent
    ELSE lower(x)

\* ---------------------------------------------------------- settings, JSON
JObj(m) == [t |-> "obj", v |-> "", m |-> m]
JTrue == JAtom("bool", "true")
JFalse == JAtom("bool", "false")

\* bool(j) of Python, as `if auth_required:` takes it
Truthy(j) ==
    CASE j.t = "bool" -> j.v = "true"
      [] j.t = "num" -> j.v # "0"
      [] j.t = "str" -> j.v # ""
      [] j.t = "arr" -> j.v # ""
      [] j.t = "obj" -> DOMAIN j.m # {}
      [] OTHER -> FALSE

\* j.get(k, default): AttributeError, in place of a value, unless j is a dict
dict_get(j, k, default) ==
    IF j.t # "obj" THEN JAtom("raise", "AttributeError")
    ELSE IF k \in DOMAIN j.m THEN j.m[k]
    ELSE default

\* the keys of the settings document
K_homes == <<"h", "o", "m", "e", "s">>
K_auth_enabled == <<"a", "u", "t", "h", "_", "e", "n", "a", "b", "l", "e", "d">>
K_homesAuthEnabled == <<"h", "o", "m", "e", "s", "A", "u", "t", "h",
                        "E", "n", "a", "b", "l", "e", "d">>

\* json.loads: JSONDecodeError, in place of a value, for a text that is no JSON
json_loads(col) ==
    IF col.t = "json" THEN col.doc ELSE JAtom("raise", "JSONDecodeError")

\* get_home_auth_enabled: True without settings and on JSONDecodeError, else
\* settings.get("homes", {}).get(home_id_prefix, {}).get("auth_enabled", True);
\* the AttributeError of a .get on a value that is no dict is not caught
get_home_auth_enabled(col, home_id_prefix) ==
    IF col.t \in {"NULL", "empty"} THEN JTrue
    ELSE IF json_loads(col).t = "raise" THEN JTrue
    ELSE dict_get(
             dict_get(
                 dict_get(json_loads(col), K_homes, JObj(EmptyMap)),
                 home_id_prefix, JObj(EmptyMap)),
             K_auth_enabled, JTrue)

\* get_homes_auth_enabled: settings.get("homesAuthEnabled", True)
get_homes_auth_enabled(col) ==
    IF col.t \in {"NULL", "empty"} THEN JTrue
    ELSE IF json_loads(col).t = "raise" THEN JTrue
    ELSE dict_get(json_loads(col), K_homesAuthEnabled, JTrue)

\* ------------------------------------------------------------------ tables
\* str(Home.home_id), str(User.id): a UUID, cut after its first group
HomeUuid(n) ==
    IF n = 1 THEN <<"a", "b", "c", "d", "1", "2", "a", "a", "-", "1">>
    ELSE <<"a", "b", "c", "d", "1", "2", "a", "f", "-", "2">>

UserUuid(u) ==
    IF u = "u1" THEN <<"a", "b", "c", "d", "1", "2", "a", "a", "-", "7">>
    ELSE <<"a", "b", "c", "d", "1", "2", "a", "f", "-", "8">>

HomeRows == {[home_id |-> HomeUuid(1), user_id |-> "u1"],
             [home_id |-> HomeUuid(2), user_id |-> "u2"]}

\* x.startswith(prefix)
startswith(x, prefix) ==
    /\ Len(prefix) <= Len(x)
    /\ \A i \in 1..Len(prefix) : x[i] = prefix[i]

\* HomeRepository.get_by_prefix: the home whose id, lowered, starts with the
\* lowered prefix; a row without owner stands for None
Home_get_by_prefix(hs, prefix) ==
    IF \E h \in hs : startswith(lower(h.home_id), lower(prefix))
    THEN CHOOSE h \in hs : startswith(lower(h.home_id), lower(prefix))
    ELSE [home_id |-> Absent, user_id |-> None]

\* UserRepository.get_by_prefix: the user whose id starts with the prefix
User_get_by_prefix(us, prefix) ==
    IF \E u \in DOMAIN us : startswith(lower(UserUuid(u)), lower(prefix))
    THEN CHOOSE u \in DOMAIN us : startswith(lower(UserUuid(u)), lower(prefix))
    ELSE None

\* the values of settings_json: NULL, the empty text, a text that is no
\* JSON, and the serialisations of documents that leave out, misplace or
\* carry the flag of home 1 and the flag of the user-scoped endpoint
Columns ==
    LET null == JAtom("null", "null")
        flags == {JTrue, JFalse, JAtom("num", "0"), JAtom("num", "1"),
                  JAtom("str", ""), JAtom("str", "false"), null,
                  JAtom("arr", ""), JObj(EmptyMap)}
        entries == {JObj(EmptyMap), null}
                       \cup {JObj(K_auth_enabled :> f) : f \in flags}
        homesObjects ==
            {JObj(EmptyMap), null,
             JObj(SubSeq(HomeUuid(2), 1, HexLen) :> JObj(K_auth_enabled :> JFalse))}
                \cup {JObj(SubSeq(HomeUuid(1), 1, HexLen) :> e) : e \in entries}
        docs == {JObj(EmptyMap), null, JAtom("arr", ""), JAtom("num", "0")}
                    \cup {JObj(K_homes :> h) : h \in homesObjects}
                    \cup {JObj(K_homesAuthEnabled :> f) : f \in flags}
    IN  {[t |-> k, doc |-> null] : k \in {"NULL", "empty", "garbage"}}
            \cup {[t |-> "json", doc |-> j] : j \in docs}

\* ---------------------------------------------------------------- requests
\* the Authorization header of a request
Headers ==
    {[scheme |-> "none", cred |-> None], [scheme |-> "Basic", cred |-> "u1"]}
        \cup {[scheme |-> "Bearer", cred |-> tok] : tok \in Tokens}

\* homecast.auth.extract_token_from_header: the credentials of a Bearer header
extract_token_from_header(h) == IF h.scheme = "Bearer" THEN h.cred ELSE None

\* the calls that have not run yet: of one of the functions, with its
\* argument in raw, or of one of the two applications, with the first
\* segment of the path in raw; the policy is "unset" until it is looked up
Requests ==
    LET pending(op, raw, header) ==
            [pc |-> "pending", op |-> op, raw |-> raw, header |-> header,
             ret |-> Absent, policy |-> JAtom("unset", ""), status |-> 0,
             scope_id |-> Absent, auth_context |-> None, delegated |-> FALSE]
        none == [scheme |-> "none", cred |-> None]
    IN  {pending("validate_home_id", x, none) : x \in Segments \cup {Absent}}
            \cup {pending("get_home_auth_enabled", SubSeq(HomeUuid(n), 1, HexLen), none) :
                      n \in {1, 2}}
            \cup {pending("get_homes_auth_enabled", <<>>, none)}
            \cup {pending(op, x, h) : op \in {"home", "homes"}, x \in Segments,
                                     h \in Headers}

\* _send_error(send, status, ...): the response, the adapter is not called
send_error(req, ret, policy, status) ==
    [req EXCEPT !.pc = "done", !.ret = ret, !.policy = policy, !.status = status]

\* set_home_id / set_user_id, _auth_context_var.set, and the call of the
\* adapter, which answers
delegate(req, ret, policy, ctx) ==
    [req EXCEPT !.pc = "done", !.ret = ret, !.policy = policy, !.status = 200,
                !.scope_id = ret, !.auth_context = ctx, !.delegated = TRUE]

\* HOME_PATH_PATTERN.match(path).group(1) for the path "/" + x + "/mcp":
\* no match when the segment is empty
HOME_PATH_PATTERN_match(x) == IF x = <<>> THEN Absent ELSE x

\* HomeScopedApp.__call__ on an http scope
HomeScopedApp(req, us, hs) ==
    LET home_id_raw == HOME_PATH_PATTERN_match(req.raw)
        home_id == validate_home_id(home_id_raw)
        home == Home_get_by_prefix(hs, home_id)
        auth_required == get_home_auth_enabled(us[home.user_id], home_id)
        token == extract_token_from_header(req.header)
        auth_context == verify_token(token)
    IN  IF home_id_raw = Absent THEN send_error(req, Absent, req.policy, 404)
        ELSE IF home_id = Absent THEN send_error(req, Absent, req.policy, 400)
        ELSE IF home.user_id = None THEN send_error(req, home_id, req.policy, 404)
        ELSE IF auth_required.t = "raise"
             THEN send_error(req, home_id, auth_required, 500)
        ELSE IF Truthy(auth_required) /\ token = None
             THEN send_error(req, home_id, auth_required, 401)
        ELSE IF Truthy(auth_required) /\ auth_context = None
             THEN send_error(req, home_id, auth_required, 401)
        ELSE delegate(req, home_id, auth_required,
                      IF Truthy(auth_required) THEN auth_context ELSE None)

\* ScopedMCPApp.__call__ up to validate_and_setup: the segment of the path,
\* validated as eight hex digits and lowered
ScopedMCPApp_id(x) == IF x # <<>> /\ EightHex(x) THEN lower(x) ELSE Absent

\* HomesScopedApp: ScopedMCPApp.__call__ with validate_and_setup
HomesScopedApp(req, us) ==
    LET user_id == ScopedMCPApp_id(req.raw)
        user == User_get_by_prefix(us, user_id)
        auth_required == get_homes_auth_enabled(us[user])
        token == extract_token_from_header(req.header)
        auth_context == verify_token(token)
    IN  IF req.raw = <<>> THEN send_error(req, Absent, req.policy, 404)
        ELSE IF user_id = Absent THEN send_error(req, Absent, req.policy, 400)
        ELSE IF user = None THEN send_error(req, user_id, req.policy, 404)
        ELSE IF auth_required.t = "raise"
             THEN send_error(req, user_id, auth_required, 500)
        ELSE IF Truthy(auth_required) /\ token = None
             THEN send_error(req, user_id, auth_required, 401)
        ELSE IF Truthy(auth_required) /\ auth_context = None
             THEN send_error(req, user_id, auth_required, 401)
        ELSE IF Truthy(auth_required) /\ auth_context # user
             THEN send_error(req, user_id, auth_required, 403)
        ELSE delegate(req, user_id, auth_required,
                      IF Truthy(auth_required) THEN auth_context ELSE None)

\* a call of validate_home_id
Call_validate_home_id ==
    /\ http.pc = "pending"
    /\ http.op = "validate_home_id"
    /\ http' = [http EXCEPT !.pc = "done", !.ret = validate_home_id(http.raw)]
    /\ UNCHANGED <<users, homes, now, sessions, slotVars, agentVars, webVars, reqVars,
                   cbVars>>

\* a call of get_home_auth_enabled for a home of u1
Call_get_home_auth_enabled ==
    /\ http.pc = "pending"
    /\ http.op = "get_home_auth_enabled"
    /\ http' = [http EXCEPT !.pc = "done",
                          !.policy = get_home_auth_enabled(users["u1"], http.raw)]
    /\ UNCHANGED <<users, homes, now, sessions, slotVars, agentVars, webVars, reqVars,
                   cbVars>>

\* a call of get_homes_auth_enabled for u1
Call_get_homes_auth_enabled ==
    /\ http.pc = "pending"
    /\ http.op = "get_homes_auth_enabled"
    /\ http' = [http EXCEPT !.pc = "done",
                          !.policy = get_homes_auth_enabled(users["u1"])]
    /\ UNCHANGED <<users, homes, now, sessions, slotVars, agentVars, webVars, reqVars,
                   cbVars>>

\* a request to /home/{home_id}/mcp
HomeScopedApp_call ==
    /\ http.pc = "pending"
    /\ http.op = "home"
    /\ http' = HomeScopedApp(http, users, homes)
    /\ UNCHANGED <<users, homes, now, sessions, slotVars, agentVars, webVars, reqVars,
                   cbVars>>

\* a request to /homes/{user_id}/mcp
HomesScopedApp_call ==
    /\ http.pc = "pending"
    /\ http.op = "homes"
    /\ http' = HomesScopedApp(http, users)
    /\ UNCHANGED <<users, homes, now, sessions, slotVars, agentVars, webVars, reqVars,
                   cbVars>>

\* two homes, of u1 and of u2; u1's settings and the call are any of the
\* bounded sets; the relay is up and idle
InitScope ==
    /\ now = 0
    /\ CallbackIdle
    /\ sessions = {}
    /\ slots = {[slot_name |-> InitSlot(p), instance_id |-> p,
                 claimed_at |-> 0, last_heartbeat |-> 0] : p \in Procs}
    /\ phase = [p \in Procs |-> "running"]
    /\ enabled = [p \in Procs |-> TRUE]
    /\ slot_name = [p \in Procs |-> InitSlot(p)]
    /\ hb_task = [p \in Procs |-> TRUE]
    /\ connections = [p \in Procs |-> EmptyMap]
    /\ socks = EmptyMap
    /\ next_sock = 1
    /\ local_clients = [p \in Procs |-> EmptyMap]
    /\ webs = EmptyMap
    /\ next_sid = 1
    /\ pending_requests = [p \in Procs |-> EmptyMap]
    /\ router_pending = [p \in Procs |-> EmptyMap]
    /\ bus = {}
    /\ calls = <<>>
    /\ tasks = EmptyMap
    /\ homes = HomeRows
    /\ \E col \in Columns, r \in Requests :
          /\ r.op = "validate_home_id" => col = NullColumn
          /\ users = [u \in Users |-> IF u = "u1" THEN col ELSE NullColumn]
          /\ http = r

NextScope ==
    \/ Call_validate_home_id
    \/ Call_get_home_auth_enabled
    \/ Call_get_homes_auth_enabled
    \/ HomeScopedApp_call
    \/ HomesScopedApp_call

SpecScope == InitScope /\ [][NextScope]_vars

\* ---- C20
\* C20: validate_home_id accepts exactly the strs of eight hex digits, in
\* either case, and returns them lowered; every other argument (None, the
\* empty str, a shorter or longer str, a str with a character that is no hex
\* digit) gets None.
C20_PrefixValidation ==
    (http.pc = "done" /\ http.op = "validate_home_id") =>
        IF http.raw # Absent /\ EightHex(http.raw)
        THEN http.ret = lower(http.raw)
        ELSE http.ret = Absent

\* ---- C19
\* the settings switch the auth of home k off with the boolean false
HomeAuthDisabled(col, k) ==
    /\ col.t = "json"
    /\ col.doc.t = "obj"
    /\ K_homes \in DOMAIN col.doc.m
    /\ col.doc.m[K_homes].t = "obj"
    /\ k \in DOMAIN col.doc.m[K_homes].m
    /\ col.doc.m[K_homes].m[k].t = "obj"
    /\ K_auth_enabled \in DOMAIN col.doc.m[K_homes].m[k].m
    /\ col.doc.m[K_homes].m[k].m[K_auth_enabled] = JFalse

\* the settings switch the auth of the user-scoped endpoint off with the
\* boolean false
HomesAuthDisabled(col) ==
    /\ col.t = "json"
    /\ col.doc.t = "obj"
    /\ K_homesAuthEnabled \in DOMAIN col.doc.m
    /\ col.doc.m[K_homesAuthEnabled] = JFalse

\* the policy function returned, and `if auth_required:` skips the token check
TokenWaived(pol) == pol.t \notin {"raise", "unset"} /\ ~Truthy(pol)

\* C19: the auth policy of a scope waives the bearer token exactly when the
\* owner's settings disable auth for that scope with the boolean false; with
\* settings that are missing, not parseable, silent about the scope, or that
\* carry another value for the flag, the token is required, and no request
\* without a valid token reaches the adapter.
C19_AuthDefaultsRequired ==
    /\ (http.pc = "done" /\ http.op = "get_home_auth_enabled") =>
          (TokenWaived(http.policy) <=> HomeAuthDisabled(users["u1"], http.raw))
    /\ (http.pc = "done" /\ http.op = "get_homes_auth_enabled") =>
          (TokenWaived(http.policy) <=> HomesAuthDisabled(users["u1"]))
    /\ (/\ http.pc = "done"
        /\ http.op = "home"
        /\ http.delegated
        /\ verify_token(extract_token_from_header(http.header)) = None) =>
          HomeAuthDisabled(users[Home_get_by_prefix(homes, http.scope_id).user_id],
                           http.scope_id)
    /\ (/\ http.pc = "done"
        /\ http.op = "homes"
        /\ http.delegated
        /\ verify_token(extract_token_from_header(http.header)) = None) =>
          HomesAuthDisabled(users[User_get_by_prefix(users, http.scope_id)])

\* ---- C18
\* the segment names a home, or a user on the user-scoped endpoint
Resolves(op, x) ==
    IF op = "home"
    THEN \E h \in homes : \A i \in 1..HexLen : h.home_id[i] = lower(x)[i]
    ELSE \E u \in Users : \A i \in 1..HexLen : UserUuid(u)[i] = lower(x)[i]

\* the user the segment names on the user-scoped endpoint
NamedUser(x) == CHOOSE u \in Users : \A i \in 1..HexLen : UserUuid(u)[i] = lower(x)[i]

\* the checks in the order of the claim, given what the policy said
ExpectedStatus(req) ==
    LET subject == verify_token(extract_token_from_header(req.header))
    IN  IF ~EightHex(req.raw) THEN 400
        ELSE IF ~Resolves(req.op, req.raw) THEN 404
        ELSE IF Truthy(req.policy) /\ subject = None THEN 401
        ELSE IF req.op = "homes" /\ Truthy(req.policy) /\ subject # NamedUser(req.raw)
             THEN 403
        ELSE 200

\* C18: a request whose path has a first segment is handed to the adapter
\* only when every check passes, and is rejected in this order: 400 when the
\* segment is not eight hex digits, 404 when it names no home (no user), 401
\* when auth is required and the bearer token is missing or invalid, 403 when
\* on the user-scoped endpoint the token's subject is not the named user;
\* when auth is not required it passes without a token.
C18_CheckOrder ==
    (/\ http.pc = "done"
     /\ http.op \in {"home", "homes"}
     /\ http.raw # <<>>
     /\ http.policy.t # "raise") =>
        /\ http.status = ExpectedStatus(http)
        /\ http.delegated <=> http.status = 200
        /\ http.status \in {400, 404} <=> http.policy.t = "unset"

\* ====================================================== response forwarding
\* wrapped_send of HomeScopedApp.__call__ and of HomesScopedApp.call_app.  A
\* body is a sequence of symbols, one of which is the state placeholder.

\* the responses of the adapter: a status, headers with or without a
\* content-length, and the body in up to MaxChunks messages
AdapterResponses ==
    LET chunks == {<<>>, <<"x">>, <<"__HOMECAST_STATE__">>,
                   <<"__HOMECAST_HOMES_STATE__">>}
        lists == UNION {[1..n -> chunks] : n \in 1..MaxChunks}
    IN  [status : {200, 202, 404}, length : BOOLEAN, chunks : lists]

\* b"".join of the chunks
JoinChunks(cs) ==
    LET RECURSIVE Join(_)
        Join(n) == IF n = 0 THEN <<>> ELSE Join(n - 1) \o cs[n]
    IN  Join(Len(cs))

\* the headers the adapter sends with a response
AdapterHeaders(r) ==
    <<[name |-> "content-type", value |-> <<"j", "s", "o", "n">>]>>
        \o (IF r.length
            THEN <<[name |-> "content-length",
                    value |-> <<Len(JoinChunks(r.chunks))>>]>>
            ELSE <<>>)

\* a request has passed the checks of the scoped app, the adapter is about
\* to answer with r: nothing is buffered, nothing was sent to the client
InitForward ==
    /\ now = 0
    /\ CallbackIdle
    /\ sessions = {}
    /\ slots = {[slot_name |-> InitSlot(p), instance_id |-> p,
                 claimed_at |-> 0, last_heartbeat |-> 0] : p \in Procs}
    /\ phase = [p \in Procs |-> "running"]
    /\ enabled = [p \in Procs |-> TRUE]
    /\ slot_name = [p \in Procs |-> InitSlot(p)]
    /\ hb_task = [p \in Procs |-> TRUE]
    /\ connections = [p \in Procs |-> EmptyMap]
    /\ socks = EmptyMap
    /\ next_sock = 1
    /\ local_clients = [p \in Procs |-> EmptyMap]
    /\ webs = EmptyMap
    /\ next_sid = 1
    /\ pending_requests = [p \in Procs |-> EmptyMap]
    /\ router_pending = [p \in Procs |-> EmptyMap]
    /\ bus = {}
    /\ calls = <<>>
    /\ tasks = EmptyMap
    /\ users = [u \in Users |-> NullColumn]
    /\ homes = HomeRows
    /\ \E op \in {"home", "homes"}, r \in AdapterResponses :
          http = [pc |-> "app", op |-> op, made |-> r, started |-> FALSE,
                  todo |-> r.chunks, original_headers |-> <<>>,
                  response_body |-> <<>>, out |-> <<>>, fetched |-> FALSE]

\* wrapped_send of {"type": "http.response.start"}: the headers are kept,
\* nothing is sent
Adapter_start ==
    /\ http.pc = "app"
    /\ ~http.started
    /\ http' = [http EXCEPT !.started = TRUE,
                            !.original_headers = AdapterHeaders(http.made)]
    /\ UNCHANGED <<users, homes, now, sessions, slotVars, agentVars, webVars, reqVars,
                   cbVars>>

\* wrapped_send of {"type": "http.response.body"}: the chunk is appended;
\* with the last chunk the state is fetched and put in place of the
\* placeholder if the body holds one, content-length is set to the length of
\* the body, and a start message with status 200 and the body are sent
Adapter_body ==
    /\ http.pc = "app"
    /\ http.started
    /\ http.todo # <<>>
    /\ LET all == http.response_body \o Head(http.todo)
           ph == IF http.op = "home" THEN "__HOMECAST_STATE__"
                 ELSE "__HOMECAST_HOMES_STATE__"
           found == \E i \in 1..Len(all) : all[i] = ph
           RECURSIVE Replace(_)
           Replace(n) ==
               IF n = 0 THEN <<>>
               ELSE Replace(n - 1)
                        \o (IF all[n] = ph THEN <<"{", "}">> ELSE <<all[n]>>)
           final == IF found THEN Replace(Len(all)) ELSE all
           new_headers ==
               [i \in 1..Len(http.original_headers) |->
                   IF http.original_headers[i].name = "content-length"
                   THEN [name |-> "content-length", value |-> <<Len(final)>>]
                   ELSE http.original_headers[i]]
       IN  IF Len(http.todo) > 1
           THEN http' = [http EXCEPT !.todo = Tail(@), !.response_body = all]
           ELSE http' = [http EXCEPT
                            !.pc = "done", !.todo = <<>>,
                            !.response_body = final,
                            !.fetched = found,
                            !.out = <<[status |-> 200, headers |-> new_headers,
                                       body |-> final]>>]
    /\ UNCHANGED <<users, homes, now, sessions, slotVars, agentVars, webVars, reqVars,
                   cbVars>>

NextForward ==
    \/ Adapter_start
    \/ Adapter_body

SpecForward == InitForward /\ [][NextForward]_vars

\* ---- C21
\* C21: when the body the adapter produced holds no state placeholder, the
\* client receives the adapter's status code, headers and body, and no state
\* was fetched (no route_request was made).
C21_ForwardedUntouched ==
    (/\ http.pc = "done"
     /\ \A i \in 1..Len(JoinChunks(http.made.chunks)) :
           JoinChunks(http.made.chunks)[i]
               # (IF http.op = "home" THEN "__HOMECAST_STATE__"
                  ELSE "__HOMECAST_HOMES_STATE__")) =>
        /\ Len(http.out) = 1
        /\ http.out[1].status = http.made.status
        /\ http.out[1].headers = AdapterHeaders(http.made)
        /\ http.out[1].body = JoinChunks(http.made.chunks)
        /\ ~http.fetched

\* ================================================== routing, further claims
\* ---- C22
\* C22: what the caller of route_request observes for an agent behaviour does
\* not depend on the process that holds the agent: a payload is the agent's
\* answer to a request frame of that call, the agent's error arrives as
\* ValueError with the agent's code and message, and an agent that did not
\* respond in time is observed as TimeoutError, on the local path and on the
\* remote path alike.
C22_Transparent ==
    \A c \in DOMAIN calls :
        calls[c].pc = "done" =>
            /\ calls[c].seen[1].val = "did not respond"
                  => calls[c].seen[1].kind = "TimeoutError"
            /\ calls[c].seen[1].val = "E: m"
                  => calls[c].seen[1].kind = "ValueError"
            /\ calls[c].seen[1].kind = "payload"
                  => \E k \in 1..calls[c].frames, s \in DOMAIN socks :
                        /\ calls[c].seen[1].of = NewId(c, k)
                        /\ NewId(c, k) \in DOMAIN socks[s].reqs
                        /\ socks[s].reqs[NewId(c, k)] >= 1

\* ------------------------------------------------- local-only fall-back
NextFallback ==
    \/ \E p \in Procs : Router_connect_ok(p)
    \/ \E p \in Procs : Router_connect_noslot(p)
    \/ \E p \in Procs : Router_connect_nobus(p)
    \/ \E d \in Devices : CM_connect(InitHost(d), "u1", d)
    \/ \E p \in Procs, d \in Devices, ok, pubok \in BOOLEAN : Route_once(p, d, ok, pubok)
    \/ \E s \in 1..MaxSockets, rid \in 1..MaxIds, kind \in {"payload", "error"} :
          AgentResponse(s, rid, kind)
    \/ \E rid \in 1..MaxIds, pubok \in BOOLEAN : CM_return(rid, pubok)
    \/ \E rid \in 1..MaxIds, pubok \in BOOLEAN : CM_timeout(rid, pubok)
    \/ \E m \in bus, ok, pubok \in BOOLEAN : BusDeliver(m, FALSE, ok, pubok)
    \/ \E c \in 1..MaxCalls : Route_finish(c)
    \/ \E c \in 1..MaxCalls : Route_timeout(c)
    \/ \E s \in 1..MaxSockets : AgentLoopEnd(s)

SpecFallback == Init /\ [][NextFallback]_vars

\* PubSubRouter.connect has returned on p without starting the heartbeat
\* task: the slot claim or the bus set-up raised
FellBack(p) == phase[p] = "running" /\ ~hb_task[p]

\* ---- C23
\* C23: on a process whose start-up could not claim a slot or could not set
\* up its topic and subscription, route_request goes to the
\* ConnectionManager: it publishes nothing and installs no correlation, an
\* agent the process holds gets the request frame (or the send fails), and
\* an agent it does not hold is reported as not connected.
C23_LocalOnlyFallback ==
    [][\A p \in Procs : \A d \in Devices :
          RouteStep(p, d) /\ FellBack(p)
          => /\ bus' = bus
             /\ router_pending' = router_pending
             /\ calls'[Len(calls')].path = "local"
             /\ calls'[Len(calls')].pub_req = 0
             /\ IF d \in DOMAIN connections[p]
                THEN \/ /\ calls'[Len(calls')].pc = "cm"
                        /\ NewId(Len(calls'), 1) \in
                              DOMAIN socks'[connections[p][d].websocket].reqs
                        /\ NewId(Len(calls'), 1) \in DOMAIN pending_requests'[p]
                     \/ calls'[Len(calls')].seen = <<Raised("ValueError", "send failed")>>
                ELSE calls'[Len(calls')].seen = <<Raised("ValueError", "not connected")>>]_vars

\* a caller on a process that fell back has received the payload of an
\* agent of that process, while the other process runs with its slot
C23_Witness ==
    \E c \in DOMAIN calls :
        /\ FellBack(calls[c].proc)
        /\ calls[c].pc = "done"
        /\ calls[c].seen = <<Payload(NewId(c, 1))>>
        /\ \E q \in Procs : phase[q] = "running" /\ hb_task[q]

\* -------------------------------------------------------- background loops
\* one iteration of PubSubRouter._heartbeat_loop in which get_session or
\* TopicSlotRepository.heartbeat raises: the `while True` is inside a try that
\* handles asyncio.CancelledError only, so the exception ends the task
Router_heartbeat_fail(p) ==
    /\ phase[p] = "running"
    /\ hb_task[p]
    /\ hb_task' = [hb_task EXCEPT ![p] = FALSE]
    /\ UNCHANGED <<scopeVars, cbVars, now, sessions, slots, phase, enabled, slot_name, agentVars, webVars, reqVars>>

\* an iteration of web_clients.cleanup_stale_sessions whose transaction
\* raises is rolled back and logged inside the loop: it changes nothing and
\* is a stuttering step of the model
NextLoops ==
    \/ Tick
    \/ \E p \in Procs : Router_heartbeat(p)
    \/ \E p \in Procs : Router_heartbeat_fail(p)
    \/ \E p \in Procs : Cleanup(p)
    \/ \E s \in 1..MaxSockets : AgentPong(s)
    \/ \E p \in Procs : Crash(p)

SpecLoops == InitRoute /\ [][NextLoops]_vars

\* ---- C24
\* C24: a failure in one iteration of a background loop leaves the loop
\* running: as long as the process runs, its slot heartbeat loop is still
\* running after every step, a failed iteration included.
C24_LoopsContinue ==
    [][\A p \in Procs :
          phase[p] = "running" /\ phase'[p] = "running" /\ hb_task[p]
          => hb_task'[p]]_vars

\* ---------------------------------------------------------------- shutdown
\* lifespan after the yield, first part: ping_task and session_cleanup_task
\* are cancelled and awaited
Lifespan_cancel(p) ==
    /\ phase[p] = "running"
    /\ phase' = [phase EXCEPT ![p] = "stopping"]
    /\ UNCHANGED <<scopeVars, cbVars, now, sessions, slots, enabled, slot_name, hb_task, agentVars, webVars, reqVars>>

\* lifespan after the yield, second part: web_clients.cleanup_instance_sessions
Lifespan_cleanup(p) ==
    /\ phase[p] = "stopping"
    /\ sessions' = cleanup_instance_sessions(sessions, InstanceId(p))
    /\ phase' = [phase EXCEPT ![p] = "cleaned"]
    /\ UNCHANGED <<scopeVars, cbVars, now, slots, enabled, slot_name, hb_task, agentVars, webVars, reqVars>>

\* lifespan after the yield, last part: shutdown_pubsub_router, that is
\* PubSubRouter.disconnect (heartbeat task cancelled, subscription
\* cancelled, slot released), and the process ends
Router_disconnect(p) ==
    /\ phase[p] = "cleaned"
    /\ hb_task' = [hb_task EXCEPT ![p] = FALSE]
    /\ slots' \in (IF slot_name[p] # None THEN release_slot(slots, p) ELSE {slots})
    /\ phase' = [phase EXCEPT ![p] = "stopped"]
    /\ StopMemory(p)
    /\ UNCHANGED <<scopeVars, now, sessions, enabled, slot_name>>

NextShutdown ==
    \/ Tick
    \/ \E d \in Devices : CM_connect(InitHost(d), "u1", d)
    \/ \E p \in Procs : Lifespan_cancel(p)
    \/ \E p \in Procs : Lifespan_cleanup(p)
    \/ \E p \in Procs : Router_disconnect(p)
    \/ \E p \in Procs : Restart(p)
    \/ \E p \in Procs : Router_connect_ok(p)
    \/ \E p \in Procs : Router_connect_nobus(p)

SpecShutdown == InitRoute /\ [][NextShutdown]_vars

\* ---- C25
\* C25: shutdown cancels the background loops and closes the bus
\* subscription before it deletes the session rows of the instance, and
\* releases the slot last; when it is complete no session row of an agent
\* of the process names its instance and no slot row does: the row of the
\* slot it held has no instance_id and no last_heartbeat, unless another
\* process holds it.
C25_ShutdownOrder ==
    /\ [](\A p \in Procs :
            phase[p] = "cleaned" => ~hb_task[p])
    /\ [][\A p \in Procs :
            phase'[p] = "stopped" /\ phase[p] # "stopped"
            => /\ \A r \in sessions' :
                     ~(r.instance_id = InstanceId(p) /\ r.device_id \in DOMAIN connections[p])
               /\ \A r \in slots' :
                     /\ r.instance_id # p
                     /\ r.slot_name = slot_name[p] /\ r.instance_id = None
                            => r.last_heartbeat = NoTime]_vars

\* ---------------------------------------------------- the single-slot sink
\* ---- C26
\* C26: the queue of a pending request holds one result: once a response
\* frame has been queued for an id, no further frame with that id changes the
\* queue, and the waiter of ConnectionManager.send_request gets the outcome
\* of the frame that was queued first (or its timeout when none was).
C26_SingleSlot ==
    [][/\ \A p \in Procs : \A rid \in DOMAIN pending_requests[p] :
             /\ pending_requests[p][rid].queue # <<>>
             /\ rid \in DOMAIN pending_requests'[p]
             => pending_requests'[p][rid].queue = pending_requests[p][rid].queue
       /\ \A c \in DOMAIN calls :
             /\ calls[c].pc = "cm"
             /\ calls'[c].pc = "done"
             => LET pend == pending_requests[calls[c].proc]
                    rid == NewId(c, 1)
                IN calls'[c].seen =
                      IF rid \in DOMAIN pend /\ pend[rid].queue # <<>>
                      THEN <<cm_outcome(pend[rid].queue[1])>>
                      ELSE <<Raised("TimeoutError", "did not respond")>>]_vars

\* the agent has answered a request twice while its waiter had not yet
\* taken the first result
C26_Witness ==
    \E s \in DOMAIN socks : \E rid \in DOMAIN socks[s].reqs :
        /\ socks[s].reqs[rid] = 2
        /\ rid \in DOMAIN pending_requests[socks[s].proc]
        /\ pending_requests[socks[s].proc][rid].queue # <<>>

\* ------------------------------------------------------- calls that return
NextReturn ==
    \/ \E p \in Procs, d \in Devices, ok, pubok \in BOOLEAN : Route_churn(p, d, ok, pubok)
    \/ \E s \in 1..MaxSockets, rid \in 1..MaxIds, kind \in {"payload", "error"} :
          AgentResponse(s, rid, kind)
    \/ \E rid \in 1..MaxIds, pubok \in BOOLEAN : CM_return(rid, pubok)
    \/ \E rid \in 1..MaxIds, pubok \in BOOLEAN : CM_timeout(rid, pubok)
    \/ \E m \in bus, ok, pubok \in BOOLEAN : BusDeliver(m, FALSE, ok, pubok)
    \/ \E c \in 1..MaxCalls : Route_finish(c)
    \/ \E c \in 1..MaxCalls : Route_timeout(c)
    \/ \E p \in Procs : Reconnect(p)
    \/ \E s \in 1..MaxSockets : AgentPeerClose(s)
    \/ \E s \in 1..MaxSockets : AgentLoopEnd(s)

SpecReturn == InitRoute /\ [][NextReturn]_vars

\* queue.get(timeout=timeout) in the executor thread and
\* asyncio.wait_for(future, timeout=timeout) end: with the result, or at the
\* timeout
SpecReturnFair ==
    /\ SpecReturn
    /\ \A rid \in 1..MaxIds :
          WF_vars(\E pubok \in BOOLEAN : CM_return(rid, pubok) \/ CM_timeout(rid, pubok))
    /\ \A c \in 1..MaxCalls : WF_vars(Route_finish(c) \/ Route_timeout(c))

Owed(corr, slot, out) ==
    {m \in bus' \ bus : /\ m.type = "response"
                        /\ m.corr = corr
                        /\ m.topic = slot
                        /\ m.res = remote_response(out)}

\* ---- C28
\* C28: for every request frame that a process takes from its subscription,
\* _handle_remote_request publishes exactly one response frame with the
\* correlation id of the request on the topic of its source slot: with the
\* payload when ConnectionManager.send_request returned, with the error when
\* it raised (at once, on the agent's error, at its timeout).
C28_OneResponsePerRequest ==
    [][/\ \A rid \in DOMAIN tasks :
             tasks[rid].origin.kind = "remote" /\ rid \notin DOMAIN tasks'
             => LET o == tasks[rid].origin
                    pend == pending_requests[tasks[rid].proc]
                    out == IF rid \in DOMAIN pend /\ pend[rid].queue # <<>>
                           THEN cm_outcome(pend[rid].queue[1])
                           ELSE Raised("TimeoutError", "did not respond")
                IN /\ calls'[o.call].pub_resp = calls[o.call].pub_resp + 1
                   /\ Cardinality(Owed(o.corr, o.source_slot, out)) = 1
       /\ \A m \in bus \ bus' :
             m.type = "request" /\ DOMAIN tasks' = DOMAIN tasks
             => /\ calls'[m.call].pub_resp = calls[m.call].pub_resp + 1
                /\ \E msg \in {"not connected", "send failed"} :
                      Cardinality(Owed(m.corr, m.source_slot,
                                       Raised("ValueError", msg))) = 1
       /\ \A c \in DOMAIN calls :
             calls'[c].pub_resp # calls[c].pub_resp
             => \/ \E rid \in DOMAIN tasks \ DOMAIN tasks' : tasks[rid].origin.call = c
                \/ \E m \in bus : m.type = "request" /\ m.call = c]_vars

\* ------------------------------------------- requests for agents not held
\* the step takes request frame m from the subscription of process p, which
\* does not hold the agent
RemoteNotHeld(p, m) ==
    /\ m \in bus \ bus'
    /\ m.type = "request"
    /\ p \in Subscribers(m.topic)
    /\ m.device_id \notin DOMAIN connections[p]

\* the step is a route_request on p that goes to ConnectionManager.send_request
\* for an agent that p does not hold
LocalNotHeld(p, d) ==
    /\ RouteStep(p, d)
    /\ calls'[Len(calls')].path = "local"
    /\ d \notin DOMAIN connections[p]

\* ---- C29
\* C29: ConnectionManager.send_request for a device that is not in the agent
\* map of the process raises the not-connected error: no frame is written
\* to any socket and no pending request is installed, whether it was called
\* by route_request or for a request frame from the bus.
C29_NotHeld ==
    [][/\ \A p \in Procs : \A d \in Devices :
             LocalNotHeld(p, d)
             => /\ calls'[Len(calls')].seen = <<Raised("ValueError", "not connected")>>
                /\ calls'[Len(calls')].frames = 0
                /\ socks' = socks
                /\ pending_requests' = pending_requests
                /\ tasks' = tasks
       /\ \A p \in Procs : \A m \in bus :
             RemoteNotHeld(p, m)
             => /\ socks' = socks
                /\ pending_requests' = pending_requests
                /\ tasks' = tasks
                /\ calls'[m.call].frames = calls[m.call].frames
                /\ \A r \in bus' \ bus :
                      r.res = remote_response(Raised("ValueError", "not connected"))]_vars

\* a response frame carries the not-connected error for a request frame that
\* reached a process after it had dropped the agent: nothing was written to
\* the agent for the call
C29_Witness ==
    \E c \in DOMAIN calls :
        /\ calls[c].path = "remote"
        /\ calls[c].frames = 0
        /\ \E m \in bus :
              /\ m.call = c /\ m.type = "response"
              /\ m.res = remote_response(Raised("ValueError", "not connected"))

\* ------------------------------------------------------------ agent pings
\* one iteration of ping_clients on process p; F: the devices of its agent
\* map whose send_json raises. Every other socket gets a ping frame with
\* webClientsListening = has_listeners(conn.user_id); the devices of F are
\* handed to ConnectionManager.disconnect
Ping(p, F) ==
    /\ phase[p] = "running"
    /\ F \subseteq DOMAIN connections[p]
    /\ \A d \in DOMAIN connections[p] :
          /\ IF d \in F THEN CanFail(p, d) ELSE CanSend(p, d)
          /\ Len(socks[connections[p][d].websocket].pings) < MaxPings
    /\ socks' = [s \in DOMAIN socks |->
                    IF \E d \in DOMAIN connections[p] \ F : connections[p][d].websocket = s
                    THEN [socks[s] EXCEPT !.pings =
                            Append(@, has_web_listeners(sessions, socks[s].user_id, now))]
                    ELSE socks[s]]
    /\ connections' = [connections EXCEPT ![p] =
                          [d \in DOMAIN @ \ F |-> @[d]]]
    /\ sessions' = {r \in sessions : r.device_id \notin F}
    /\ UNCHANGED <<scopeVars, cbVars, now, slotVars, next_sock, webVars, reqVars>>

NextPing ==
    \/ TickShort
    \/ \E p \in Procs : Web_connect(p, "u1")
    \/ \E p \in Procs : Reconnect(p)
    \/ \E s \in 1..MaxSockets : AgentPeerClose(s)
    \/ \E p \in Procs, F \in SUBSET Devices : Ping(p, F)

SpecPing == InitListen /\ [][NextPing]_vars

\* the agent behind a socket is connected: the socket is open with the agent
\* behind it, the agent map of its process holds it, and the registry has a
\* row for the agent on that process
Connected(s) ==
    /\ socks[s].open /\ socks[s].peer
    /\ ConnectedTo(socks, connections, socks[s].device_id, socks[s].proc)
    /\ connections[socks[s].proc][socks[s].device_id].websocket = s
    /\ \E r \in sessions : r.device_id = socks[s].device_id
                           /\ r.instance_id = InstanceId(socks[s].proc)

\* the ping frames written to socket s in the step
NewPings(s) == SubSeq(socks'[s].pings, Len(socks[s].pings) + 1, Len(socks'[s].pings))

\* the step is an iteration of ping_clients of some process
PingStep ==
    \/ \E s \in DOMAIN socks : NewPings(s) # <<>>
    \/ \E p \in Procs : DOMAIN connections'[p] # DOMAIN connections[p]
                         /\ next_sock' = next_sock

\* the step hands the device of socket s to ConnectionManager.disconnect
SendFailed(s) ==
    /\ socks[s].device_id \in DOMAIN connections[socks[s].proc]
    /\ connections[socks[s].proc][socks[s].device_id].websocket = s
    /\ socks[s].device_id \notin DOMAIN connections'[socks[s].proc]

\* ---- C30
\* C30: a ping carries webClientsListening = has_web_listeners(user of the
\* agent) as the registry is when the ping is sent; the ping loop removes
\* from the agent map, and deletes the registry row of, the agents whose send
\* fails; and an agent that was connected and whose pings are sent stays
\* connected.
C30_Ping ==
    [][/\ \A s \in DOMAIN socks :
             NewPings(s) # <<>>
             => NewPings(s) = <<has_web_listeners(sessions, socks[s].user_id, now)>>
       /\ \A p \in Procs : \A d \in DOMAIN connections[p] :
             d \notin DOMAIN connections'[p]
             => /\ NewPings(connections[p][d].websocket) = <<>>
                /\ CanFail(p, d)
                /\ get_device_session(sessions', d) = {}
       /\ PingStep =>
             \A s \in DOMAIN socks :
                Connected(s) => Connected(s)' \/ SendFailed(s)]_vars

\* ------------------------------------------------- events and their users
NextEventUsers ==
    \/ \E tok \in Users : Web_connect("P1", tok)
    \/ \E tok \in Users : CM_connect("P1", tok, "A1")
    \/ \E s \in 1..MaxSockets : AgentEvent(s, {})
    \/ \E m \in bus : BusDeliverOther(m)
    \/ \E s \in 1..MaxSockets : AgentLoopEnd(s)

SpecEventUsers == InitRoute /\ [][NextEventUsers]_vars

\* ---- C31
\* C31: an event frame reaches only listeners of the user who authenticated
\* the agent socket it came from: every event a listener has received was
\* sent on a socket of the listener's own user.
C31_EventsStayWithUser ==
    \A sid \in DOMAIN webs : \A e \in webs[sid].ev :
        socks[e[1]].user_id = webs[sid].user_id

\* ------------------------------------------------- broadcast to listeners
NextBroadcast ==
    \/ \E tok \in Users : Web_connect("P1", tok)
    \/ \E sid \in 1..MaxWebSessions : WebPeerClose(sid)
    \/ \E s \in 1..MaxSockets, F \in SUBSET (1..MaxWebSessions) : AgentEvent(s, F)
    \/ \E m \in bus : BusDeliverOther(m)
    \/ \E s \in 1..MaxSockets : AgentPeerClose(s)

SpecBroadcast == InitRoute /\ [][NextBroadcast]_vars

\* the registry has the row of listener sid
HasRow(db, sid) == \E r \in db : r.id = sid /\ r.session_type = "web"

\* ---- C32
\* C32: in a broadcast to the listeners of a user on a process, a listener
\* whose send fails is disconnected at once (it leaves local_clients and its
\* row is deleted), and every other listener of the user on the process
\* gets the frame and stays in local_clients and in the registry.
C32_BroadcastDisconnects ==
    [][\A s \in DOMAIN socks :
          /\ socks'[s].events = socks[s].events + 1
          /\ socks[s].device_id \in DOMAIN connections[socks[s].proc]
          => \A sid \in ClientsOf(socks[s].proc,
                                  connections[socks[s].proc][socks[s].device_id].user_id) :
                \/ /\ sid \in DOMAIN local_clients'[socks[s].proc]
                   /\ HasRow(sessions', sid)
                   /\ webs[sid].peer => EventId(s, socks'[s].events) \in webs'[sid].ev
                \/ /\ ~webs[sid].peer
                   /\ sid \notin DOMAIN local_clients'[socks[s].proc]
                   /\ ~HasRow(sessions', sid)
                   /\ EventId(s, socks'[s].events) \notin webs'[sid].ev]_vars

\* a listener has the event, and another listener of the same user on the
\* same process, whose send failed, is in neither local_clients nor the
\* registry
C32_Witness ==
    \E sid, sid2 \in DOMAIN webs :
        /\ sid # sid2
        /\ webs[sid].proc = webs[sid2].proc
        /\ webs[sid].user_id = webs[sid2].user_id
        /\ webs[sid].ev # {}
        /\ sid \in DOMAIN local_clients[webs[sid].proc]
        /\ HasRow(sessions, sid)
        /\ ~webs[sid2].peer
        /\ sid2 \notin DOMAIN local_clients[webs[sid2].proc]
        /\ ~HasRow(sessions, sid2)
        /\ webs[sid].ev \ webs[sid2].ev # {}

\* ----------------------------------------------------- delivery callbacks
\* the event loop that connect() stored in _loop is running
loop_running(p) == phase[p] \in {"running", "stopping", "cleaned"}

\* the processes whose subscriber threads call _message_callback for what
\* is published on a topic: subscribed by connect(), not yet cancelled by
\* disconnect()
Listening(topic) ==
    {p \in Procs : /\ phase[p] \in {"running", "stopping", "cleaned", "aborted"}
                   /\ enabled[p]
                   /\ slot_name[p] = topic}

\* bytes on a topic that json.loads rejects
Undecodable(topic) ==
    [type |-> "undecodable", topic |-> topic, corr |-> 0, source_slot |-> None,
     device_id |-> None, call |-> 0, res |-> NoResult, n |-> 0]

\* a publisher that is not a relay process puts such bytes on a topic
PublishForeign(topic) ==
    /\ Undecodable(topic) \notin bus \cup nacked
    /\ bus' = bus \cup {Undecodable(topic)}
    /\ UNCHANGED <<scopeVars, cbVars, now, sessions, slotVars, agentVars, webVars,
                   pending_requests, router_pending, calls, tasks>>

\* the lifespan's shutdown code raises at `await ping_task`, because the
\* ping loop had ended with an exception of connection_manager.disconnect:
\* shutdown_pubsub_router is not reached, the loop stops, the subscription
\* is still open
Lifespan_abort(p) ==
    /\ phase[p] = "running"
    /\ hb_task' = [hb_task EXCEPT ![p] = FALSE]
    /\ phase' = [phase EXCEPT ![p] = "aborted"]
    /\ StopMemory(p)
    /\ UNCHANGED <<scopeVars, now, sessions, slots, enabled, slot_name>>

\* _message_callback for a delivery of m to process p, in a thread of the
\* subscriber
message_callback(p, m) ==
    /\ m \in bus
    /\ p \in Listening(m.topic)
    /\ IF m.type = "undecodable"
       THEN /\ nacked' = nacked \cup {m}
            /\ UNCHANGED <<bus, scheduled, acked>>
       ELSE /\ scheduled' = IF loop_running(p)
                            THEN [scheduled EXCEPT ![p] = @ \cup {m}]
                            ELSE scheduled
            /\ acked' = acked \cup {m}
            /\ bus' = bus \ {m}
            /\ UNCHANGED nacked
    /\ UNCHANGED <<scopeVars, handled, now, sessions, slotVars, agentVars, webVars,
                   pending_requests, router_pending, calls, tasks>>

\* _handle_message for a message that a callback scheduled on the loop of p
Router_handle_message(p, m, ok, pubok) ==
    /\ m \in scheduled[p]
    /\ loop_running(p)
    /\ scheduled' = [scheduled EXCEPT ![p] = @ \ {m}]
    /\ handled' = handled \cup {m}
    /\ IF m.type = "request"
       THEN /\ ok \in SendOutcomes(p, m.device_id)
            /\ handle_remote_request(p, m, FALSE, ok, pubok)
       ELSE /\ ok /\ pubok
            /\ router_pending' = [router_pending EXCEPT ![p] =
                                     IF m.type = "response"
                                     THEN resolve(@, m.corr, m.res) ELSE @]
            /\ UNCHANGED <<bus, calls, pending_requests, tasks, socks>>
    /\ UNCHANGED <<scopeVars, acked, nacked, now, sessions, slotVars, connections,
                   next_sock, webVars>>

NextCallback ==
    \/ \E ok, pubok \in BOOLEAN : Route_once("P2", "A1", ok, pubok)
    \/ \E p \in Procs, m \in bus : message_callback(p, m)
    \/ \E p \in Procs, m \in acked, ok, pubok \in BOOLEAN :
          Router_handle_message(p, m, ok, pubok)
    \/ \E s \in 1..MaxSockets, rid \in 1..MaxIds, kind \in {"payload", "error"} :
          AgentResponse(s, rid, kind)
    \/ \E rid \in 1..MaxIds, pubok \in BOOLEAN : CM_return(rid, pubok)
    \/ \E rid \in 1..MaxIds, pubok \in BOOLEAN : CM_timeout(rid, pubok)
    \/ \E c \in 1..MaxCalls : Route_finish(c)
    \/ \E c \in 1..MaxCalls : Route_timeout(c)
    \/ \E topic \in SlotNames : PublishForeign(topic)
    \/ \E p \in Procs : Crash(p)
    \/ \E p \in Procs : Lifespan_abort(p)

SpecCallback == InitRoute /\ [][NextCallback]_vars

\* ---- C33
\* C33: the delivery callback acks every message it decodes, having handed
\* it to the loop, nacks a message that does not decode and leaves it
\* unhandled, and every acked message is handled by the router.
C33_AckAfterHandoff ==
    /\ [](\A m \in acked : m \in handled \/ \E p \in Procs : m \in scheduled[p])
    /\ [][/\ \A m \in acked' \ acked :
                /\ m.type # "undecodable"
                /\ \E p \in Procs : m \in scheduled'[p]
          /\ \A m \in bus \ bus' : m \in acked'
          /\ \A m \in nacked' \ nacked :
                /\ m.type = "undecodable"
                /\ m \in bus'
                /\ m \notin handled' \cup acked'
                /\ \A p \in Procs : m \notin scheduled'[p]]_vars

\* ---------------------------------------------------- per-request context
\* A request to /home/{home_id}/... is served by HomeScopedApp.__call__
\* (entry "asgi"), a request to /mcp/{home_id} by mcp_endpoint (entry
\* "route"); both make the same checks.  home_id and auth are the context
\* variables of the request's task.

\* the relay is up and idle, u1's settings are any column, and a request
\* with a first segment has arrived at one of the two entries; the adapter
\* will answer or raise
InitContext ==
    /\ now = 0
    /\ CallbackIdle
    /\ sessions = {}
    /\ slots = {[slot_name |-> InitSlot(p), instance_id |-> p,
                 claimed_at |-> 0, last_heartbeat |-> 0] : p \in Procs}
    /\ phase = [p \in Procs |-> "running"]
    /\ enabled = [p \in Procs |-> TRUE]
    /\ slot_name = [p \in Procs |-> InitSlot(p)]
    /\ hb_task = [p \in Procs |-> TRUE]
    /\ connections = [p \in Procs |-> EmptyMap]
    /\ socks = EmptyMap
    /\ next_sock = 1
    /\ local_clients = [p \in Procs |-> EmptyMap]
    /\ webs = EmptyMap
    /\ next_sid = 1
    /\ pending_requests = [p \in Procs |-> EmptyMap]
    /\ router_pending = [p \in Procs |-> EmptyMap]
    /\ bus = {}
    /\ calls = <<>>
    /\ tasks = EmptyMap
    /\ homes = HomeRows
    /\ \E col \in Columns, r \in Requests, entry \in {"asgi", "route"},
          will \in {"answer", "raise"} :
          /\ r.op = "home"
          /\ r.raw # <<>>
          /\ users = [u \in Users |-> IF u = "u1" THEN col ELSE NullColumn]
          /\ http = [pc |-> "pending", entry |-> entry, will |-> will, req |-> r,
                     res |-> r, home_id |-> Absent, auth |-> None, bound |-> FALSE,
                     seen |-> <<>>, flushed |-> FALSE, raised |-> FALSE]

\* the checks of the entry, then either the error response or
\* set_home_id(home_id) and _auth_context_var.set(auth_context)
Scope_ingress ==
    /\ http.pc = "pending"
    /\ LET r == HomeScopedApp(http.req, users, homes)
       IN  http' = IF r.delegated
                   THEN [http EXCEPT !.pc = "bound", !.res = r, !.bound = TRUE,
                                     !.home_id = r.scope_id, !.auth = r.auth_context]
                   ELSE [http EXCEPT !.pc = "done", !.res = r, !.flushed = TRUE]
    /\ UNCHANGED <<users, homes, now, sessions, slotVars, agentVars, webVars, reqVars,
                   cbVars>>

\* the call of the adapter inside the try: it reads the context variables;
\* what it answers is sent to the client by wrapped_send of
\* HomeScopedApp.__call__ and is kept in response_body by send of
\* mcp_endpoint; or it raises
Scope_adapter ==
    /\ http.pc = "bound"
    /\ http' = [http EXCEPT !.pc = "finally",
                            !.seen = <<[home_id |-> http.home_id, auth |-> http.auth]>>,
                            !.raised = (http.will = "raise"),
                            !.flushed = (http.entry = "asgi" /\ http.will = "answer")]
    /\ UNCHANGED <<users, homes, now, sessions, slotVars, agentVars, webVars, reqVars,
                   cbVars>>

\* the finally clause: set_home_id(None), _auth_context_var.set(None).
\* HomeScopedApp.__call__ is over, or lets the exception of the adapter
\* pass; mcp_endpoint returns its Response, or the JSONResponse of its
\* except clause
Scope_finally ==
    /\ http.pc = "finally"
    /\ http' = [http EXCEPT !.pc = IF http.flushed THEN "done" ELSE "returned",
                            !.home_id = Absent, !.auth = None]
    /\ UNCHANGED <<users, homes, now, sessions, slotVars, agentVars, webVars, reqVars,
                   cbVars>>

\* the framework sends what the endpoint returned, or the response for the
\* exception that left the application
Scope_flush ==
    /\ http.pc = "returned"
    /\ http' = [http EXCEPT !.pc = "done", !.flushed = TRUE]
    /\ UNCHANGED <<users, homes, now, sessions, slotVars, agentVars, webVars, reqVars,
                   cbVars>>

NextContext ==
    \/ Scope_ingress
    \/ Scope_adapter
    \/ Scope_finally
    \/ Scope_flush

SpecContext == InitContext /\ [][NextContext]_vars

\* ---- C34
\* C34: scope and auth context are bound before the adapter is called, so
\* the adapter sees them, and are cleared after the response is flushed,
\* also when the adapter raises; a request rejected by the checks never
\* binds them.
C34_ContextBound ==
    /\ [](/\ http.seen # <<>> =>
               /\ http.seen[1].home_id = http.res.scope_id
               /\ http.seen[1].auth = http.res.auth_context
               /\ http.res.scope_id # Absent
          /\ http.pc = "done" => http.home_id = Absent /\ http.auth = None
          /\ http.pc = "done" /\ ~http.res.delegated => ~http.bound /\ http.seen = <<>>
          /\ http.pc = "done" /\ http.res.delegated => http.bound /\ http.seen # <<>>)
    /\ [][http.home_id # Absent /\ http'.home_id = Absent /\ ~http.raised
              => http.flushed]_vars

\* ---- C35
\* C35: when a device has reconnected to the same process and its old
\* socket was closed with 4002, the end of the old socket's read loop
\* leaves the agent map entry of the new socket and the registry row of the
\* device as they are.
C35_OldLoopEndKeepsNew ==
    [][\A s \in DOMAIN socks :
          /\ socks[s].loop
          /\ ~socks'[s].loop
          /\ socks[s].code = 4002
          /\ socks[s].device_id \in DOMAIN connections[socks[s].proc]
          /\ connections[socks[s].proc][socks[s].device_id].websocket # s
          => /\ socks[s].device_id \in DOMAIN connections'[socks[s].proc]
             /\ connections'[socks[s].proc][socks[s].device_id]
                    = connections[socks[s].proc][socks[s].device_id]
             /\ get_device_session(sessions', socks[s].device_id)
                    = get_device_session(sessions, socks[s].device_id)]_vars

\* ------------------------------------------- responses from another agent
NextCross ==
    \/ CM_connect("P1", "u2", "A2")
    \/ \E p \in Procs, ok, pubok \in BOOLEAN : Route_once(p, "A1", ok, pubok)
    \/ \E s \in 1..MaxSockets, rid \in 1..MaxIds, kind \in {"payload", "error"} :
          AgentResponse(s, rid, kind)
    \/ \E s \in 1..MaxSockets, rid \in 1..MaxIds, kind \in {"payload", "error"} :
          AgentStray(s, rid, kind)
    \/ \E rid \in 1..MaxIds, pubok \in BOOLEAN : CM_return(rid, pubok)
    \/ \E rid \in 1..MaxIds, pubok \in BOOLEAN : CM_timeout(rid, pubok)
    \/ \E m \in bus, ok, pubok \in BOOLEAN : BusDeliver(m, FALSE, ok, pubok)
    \/ \E c \in 1..MaxCalls : Route_finish(c)
    \/ \E c \in 1..MaxCalls : Route_timeout(c)

SpecCross == InitRoute /\ [][NextCross]_vars

\* ---- C36
\* C36: a response frame completes a pending request only when it arrives
\* on the socket of the agent the request was sent to: a frame with the id
\* of a request pending for another agent leaves that request as it is.
C36_ResponseFromOwner ==
    [][\A s \in DOMAIN socks : \A rid \in 1..MaxIds :
          /\ Len(socks'[s].strays) = Len(socks[s].strays) + 1
          /\ socks'[s].strays[Len(socks'[s].strays)] = rid
          /\ rid \in DOMAIN pending_requests[socks[s].proc]
          /\ pending_requests[socks[s].proc][rid].device_id # socks[s].device_id
          => pending_requests'[socks[s].proc][rid] = pending_requests[socks[s].proc][rid]]_vars

\* ---- C37
\* C37: after a connect of device d with a token of user u was accepted,
\* the registry row of d names u, also when d had a row before; so no row
\* names, for a device with a live socket, another user than the one that
\* socket was authenticated for.
C37_RowNamesUser ==
    /\ [][\A s \in DOMAIN socks' \ DOMAIN socks :
             socks'[s].loop
             => /\ get_device_session(sessions', socks'[s].device_id) # {}
                /\ \A r \in get_device_session(sessions', socks'[s].device_id) :
                      r.user_id = socks'[s].user_id]_vars
    /\ [](\A r \in sessions : \A p \in Procs :
             /\ r.session_type = "device"
             /\ ConnectedTo(socks, connections, r.device_id, p)
             => connections[p][r.device_id].user_id = r.user_id)

\* ---- C38
\* C38: an agent that is in the agent map of a process, with its socket
\* open and read, has a registry row; and where the collector has deleted
\* the row of such an agent, the pong the agent sends next leaves a row.
C38_RowWhileConnected ==
    \A s \in DOMAIN socks :
        /\ Readable(s)
        /\ socks[s].device_id \in DOMAIN connections[socks[s].proc]
        /\ connections[socks[s].proc][socks[s].device_id].websocket = s
        => /\ get_device_session(sessions, socks[s].device_id) # {}
           /\ get_device_session(
                  update_heartbeat_by_device(sessions, socks[s].device_id, now),
                  socks[s].device_id) # {}

\* ------------------------------------------------ reclaim of a live owner
\* a minute passes; before it does, every heartbeat loop that is alive has
\* woken from its sleep of 60 s and refreshed the lease of its process
TickDue ==
    /\ \A p \in Procs : \A r \in slots :
          phase[p] = "running" /\ hb_task[p] /\ r.instance_id = p
              => r.last_heartbeat = now
    /\ Tick

NextReclaim ==
    \/ TickDue
    \/ \E p \in Procs : Router_connect_ok(p)
    \/ \E p \in Procs : Router_connect_noslot(p)
    \/ \E p \in Procs : Router_connect_nobus(p)
    \/ \E p \in Procs : Router_heartbeat(p)
    \/ \E p \in Procs : Router_heartbeat_fail(p)
    \/ \E p \in Procs : Shutdown(p)
    \/ \E p \in Procs : Crash(p)
    \/ \E p \in Procs : Restart(p)

SpecReclaim == Init /\ [][NextReclaim]_vars

\* ---- C39
\* C39: no two running processes are subscribed to the topic of the same
\* slot at the same time, also when a slot is reclaimed from an owner that
\* still runs but whose heartbeats have stopped.
C39_OneSubscriber == \A topic \in SlotNames : Cardinality(Subscribers(topic)) <= 1

\* ---- C40
\* C40: a remote Route call causes at most one request frame to be written
\* to the agent's socket, however often the bus delivers its request
\* message to the target process.
C40_OneFramePerRemoteCall ==
    \A c \in DOMAIN calls :
        calls[c].path = "remote" =>
            /\ calls[c].frames <= 1
            /\ Cardinality({<<s, rid>> \in (DOMAIN socks) \X (1..MaxIds) :
                               /\ rid \in DOMAIN socks[s].reqs
                               /\ \E k \in 1..IdsPerCall : rid = NewId(c, k)}) <= 1

====
